---- MODULE Spec2Model ----
(***************************************************************************)
(* Subscription provisioning and payment reconciliation of the VPN bot:    *)
(* the ledger (utils/database.py), the gateway documents (utils/xray.py),  *)
(* the payment provider boundary (utils/payments.py) and the handlers and  *)
(* the recurring job of bot.py that tie them together.                     *)
(*                                                                         *)
(* Strings that the code builds with '_' and takes apart with split('_')   *)
(* are sequences of their '_'-free pieces: f"{a}_{b}" is a \o b and        *)
(* s.split('_')[i] is <<s[i+1]>>.  None and the empty string are <<>>.     *)
(***************************************************************************)
EXTENDS Integers, Sequences, FiniteSets, TLC

VARIABLES
    now,        \* int(time.time())
    cfg,        \* the loaded config.yaml: the server list
    users,      \* database._data['users']: the ids that have a user record
    subs,       \* every user's 'subscriptions' list, in creation order
    payments,   \* database._data['payments']: payment id -> record
    docs,       \* the gateway configuration document at each config_path
    jobs,       \* the job queue: the repeating check_payment_job instances
    user_data,  \* context.user_data of every user
    shown,      \* the callback_data of the buttons in every user's chat
    provider,   \* the provider's own status of every invoice it issued
    next_uuid,  \* source of fresh uuid4 values
    last        \* the most recent payment check (manual or job): the payment it
                \* was for, the provider's answer to it, and how it ended; under
                \* the specifications of direct calls, the most recent call,
                \* its arguments and what it returned

vars == <<now, cfg, users, subs, payments, docs, jobs, user_data, shown,
          provider, next_uuid, last>>

-----------------------------------------------------------------------------
\* Bounds of the model.  MaxSubs bounds the subscriptions together with the jobs
\* that may still create one, so that no check in progress is ever cut short.
MaxNow == 1
MaxSubs == 2
MaxPayments == 1

\* Program constants.
DaySeconds == 86400

None == <<>>
\* The Telegram users that reach the bot.
Users == {1}

\* subscription_plans of config.yaml.
Plans == { [days |-> 30, price |-> 5, price_stars |-> 50] }
PlanDays == { p.days : p \in Plans }
\* trial.days of config.yaml; Config.get_trial_days defaults it to 3.
TrialDays == 3

\* config.yaml's 'servers': two servers, the second with a '_' in its id.  In
\* the first configuration every server names its own xray.config_path; in the
\* second none does and ServerXRayManager.__init__ gives both the default path.
DefaultPath == "/etc/xray/config.json"
Configs ==
    { << [id |-> <<"eu1">>, config_path |-> "/etc/xray/eu1.json"],
         [id |-> <<"us", "2">>, config_path |-> "/etc/xray/us2.json"] >>,
      << [id |-> <<"eu1">>, config_path |-> DefaultPath],
         [id |-> <<"us", "2">>, config_path |-> DefaultPath] >> }
Paths == { "/etc/xray/eu1.json", "/etc/xray/us2.json", DefaultPath }

-----------------------------------------------------------------------------
\* Small helpers on sequences.
Range(s) == { s[i] : i \in DOMAIN s }
RemoveAt(s, i) == SubSeq(s, 1, i - 1) \o SubSeq(s, i + 1, Len(s))
Truthy(x) == x # None

\* str.split('_')[i] (i counted from 0) of a string given by its pieces.
SplitAt(s, i) == IF i + 1 \in DOMAIN s THEN << s[i + 1] >> ELSE None

-----------------------------------------------------------------------------
\* utils/config.py and XRayManager: the server registry.

\* Config.get_server_by_id: the first server of the list with that id, or 0.
get_server_by_id(server_id) ==
    IF \E i \in DOMAIN cfg : cfg[i].id = server_id
    THEN CHOOSE i \in DOMAIN cfg :
            /\ cfg[i].id = server_id
            /\ \A j \in DOMAIN cfg : cfg[j].id = server_id => i <= j
    ELSE 0

\* XRayManager.get_server_manager: the manager of that server and, when the id
\* is empty or unknown, the first manager of the registry.
get_server_manager(server_id) ==
    IF Truthy(server_id) /\ get_server_by_id(server_id) # 0
    THEN get_server_by_id(server_id)
    ELSE 1

\* ServerXRayManager.__init__: the document a manager reads and writes.
config_path(mgr) == cfg[mgr].config_path

\* XRayManager.get_available_servers.
get_available_servers == [ i \in DOMAIN cfg |-> cfg[i].id ]

-----------------------------------------------------------------------------
\* utils/xray.py: one gateway document.  A document is its two client lists;
\* exists = FALSE is a config_path with no file.

_create_default_config == [reality |-> <<>>, ws |-> <<>>]

NoFile == [exists |-> FALSE, reality |-> <<>>, ws |-> <<>>]

\* ServerXRayManager.load_config; read_ok = FALSE is an open() or json.load()
\* that raises.
load_config(d, path, read_ok) ==
    IF d[path].exists /\ read_ok
    THEN [reality |-> d[path].reality, ws |-> d[path].ws]
    ELSE _create_default_config

\* ServerXRayManager.save_config; write_ok = FALSE is a failed makedirs/open.
save_config(d, path, config_data, write_ok) ==
    IF write_ok
    THEN [d EXCEPT ![path] = [exists |-> TRUE, reality |-> config_data.reality,
                              ws |-> config_data.ws]]
    ELSE d

\* ServerXRayManager.add_user: the documents afterwards and the returned dict
\* (error = TRUE is {"error": "Failed to add user"}, which has no 'id').
add_user(d, path, email, protocol, uuid, read_ok, write_ok) ==
    LET config_data == load_config(d, path, read_ok)
        user == [id |-> uuid, email |-> email,
                 flow |-> IF protocol = "reality" THEN "xtls-rprx-vision" ELSE ""]
        changed == [config_data EXCEPT
                      !.reality = IF protocol = "reality" THEN Append(@, user) ELSE @,
                      !.ws = IF protocol = "websocket" THEN Append(@, user) ELSE @]
    IN  [docs |-> save_config(d, path, changed, write_ok),
         result |-> IF write_ok
                    THEN [error |-> FALSE, id |-> uuid]
                    ELSE [error |-> TRUE, id |-> 0]]

\* XRayManager.add_user: add_user of the manager that server_id resolves to.
xray_manager_add_user(d, email, server_id, uuid, read_ok, write_ok) ==
    add_user(d, config_path(get_server_manager(server_id)), email, "reality",
             uuid, read_ok, write_ok)

\* The clients of a document, over all its inbounds.
Clients(doc) == Range(doc.reality) \cup Range(doc.ws)

\* ServerXRayManager.get_user: <<the first client with that email>>, looked for
\* inbound by inbound in the document's order, or None.
xray_get_user(d, path, email, read_ok) ==
    LET config_data == load_config(d, path, read_ok)
        found(clients) == SelectSeq(clients, LAMBDA c : c.email = email)
    IN  IF found(config_data.reality) # <<>>
        THEN << [id |-> found(config_data.reality)[1].id, email |-> email,
                 protocol |-> "reality"] >>
        ELSE IF found(config_data.ws) # <<>>
        THEN << [id |-> found(config_data.ws)[1].id, email |-> email,
                 protocol |-> "websocket"] >>
        ELSE None

\* remove_user as it would be if it looked at the first inbound only.
remove_user_first_inbound(d, path, email, read_ok, write_ok) ==
    LET config_data == load_config(d, path, read_ok)
        new_clients(clients) == SelectSeq(clients, LAMBDA c : c.email # email)
        removed == Len(new_clients(config_data.reality)) # Len(config_data.reality)
        changed == [reality |-> new_clients(config_data.reality),
                    ws |-> config_data.ws]
    IN  [docs |-> IF removed THEN save_config(d, path, changed, write_ok) ELSE d,
         result |-> removed /\ write_ok,
         reloaded |-> removed /\ write_ok]

\* ServerXRayManager.remove_user: the documents afterwards, the returned bool
\* and whether reload_xray was called.
remove_user(d, path, email, read_ok, write_ok) ==
    LET config_data == load_config(d, path, read_ok)
        new_clients(clients) == SelectSeq(clients, LAMBDA c : c.email # email)
        removed == \/ Len(new_clients(config_data.reality)) # Len(config_data.reality)
                   \/ Len(new_clients(config_data.ws)) # Len(config_data.ws)
        changed == [reality |-> new_clients(config_data.reality),
                    ws |-> new_clients(config_data.ws)]
    IN  [docs |-> IF removed THEN save_config(d, path, changed, write_ok) ELSE d,
         result |-> removed /\ write_ok,
         reloaded |-> removed /\ write_ok]

\* generate_vless_link as it would be if it drew a new short id at every call.
generate_vless_link_fresh_sid(mgr, uuid, email, protocol) ==
    IF protocol = "reality" /\ cfg[mgr].domain # ""
    THEN << "vless://", uuid, "@", cfg[mgr].domain, ":", cfg[mgr].reality_port,
            "?", "security=reality", "&", "sid=", next_uuid, "#",
            email \o <<"reality">> >>
    ELSE << "Error: Server address not configured" >>

\* generate_vless_link as it would be if WebSocket+TLS fell back to the ip as
\* the disguised-TLS transport does.
generate_vless_link_ip_fallback(mgr, uuid, email, protocol) ==
    LET server_address == IF cfg[mgr].domain # "" THEN cfg[mgr].domain
                          ELSE cfg[mgr].ip
    IN  IF server_address = ""
        THEN << "Error: Server address not configured" >>
        ELSE << "vless://", uuid, "@", server_address, ":",
                IF protocol = "reality" THEN cfg[mgr].reality_port
                ELSE cfg[mgr].ws_port,
                "?", "encryption=none", "#", email \o <<protocol>> >>

\* ServerXRayManager.generate_vless_link: the returned string, piece by piece.
\* A link is "vless://", the uuid, "@", the address, ":", the port, "?", the
\* query parts joined by "&", "#" and the fragment; an error is one piece.
generate_vless_link(mgr, uuid, email, protocol) ==
    IF protocol = "reality"
    THEN LET server_address == IF cfg[mgr].domain # "" THEN cfg[mgr].domain
                               ELSE cfg[mgr].ip
         IN  IF server_address = ""
             THEN << "Error: Server address not configured" >>
             ELSE << "vless://", uuid, "@", server_address, ":",
                     cfg[mgr].reality_port, "?",
                     "security=reality", "&", "encryption=none", "&",
                     "flow=xtls-rprx-vision", "&", "type=tcp", "&",
                     "sni=" \o cfg[mgr].sni, "&", "fp=chrome", "&",
                     "pbk=" \o cfg[mgr].public_key, "&",
                     "sid=" \o cfg[mgr].short_id, "#",
                     email \o <<"reality">> >>
    ELSE LET server_address == cfg[mgr].domain
         IN  IF server_address = ""
             THEN << "Error: Domain not configured for WebSocket+TLS" >>
             ELSE << "vless://", uuid, "@", server_address, ":",
                     cfg[mgr].ws_port, "?",
                     "security=tls", "&", "encryption=none", "&", "type=ws",
                     "&", "path=/ws", "#", email \o <<"websocket">> >>

\* What one 'xray api statsquery' call can give back: subprocess.run raises
\* ("raises"), nothing on stdout ("empty"), text that is no JSON ("not_json"),
\* JSON that is no object ("not_object"), an object without 'stat' ("no_stat"),
\* with an empty 'stat' list ("empty_stat"), with a value that int() refuses
\* ("bad_value"), or with a number ("value").
Responses ==
    { [kind |-> k, value |-> 0] :
        k \in { "raises", "empty", "not_json", "not_object", "no_stat",
                "empty_stat", "bad_value" } }
    \cup { [kind |-> "value", value |-> v] : v \in {0, 7} }

\* One counter's parsing block of get_user_traffic: what it leaves in its
\* variable.  escapes = TRUE is an exception its 'except' clause does not name.
counter_bytes(response) ==
    [escapes |-> response.kind = "not_object",
     int_ok |-> response.kind # "bad_value",
     bytes |-> IF response.kind = "value" THEN response.value ELSE 0]

ZeroTraffic == [raised |-> FALSE, uplink |-> 0, downlink |-> 0, total |-> 0]

\* The body of get_user_traffic's outer 'try'.
traffic_body(uplink_result, downlink_result) ==
    LET uplink == counter_bytes(uplink_result)
        downlink == counter_bytes(downlink_result)
    IN  IF \/ uplink_result.kind = "raises" \/ downlink_result.kind = "raises"
           \/ uplink.escapes \/ downlink.escapes
           \/ ~uplink.int_ok \/ ~downlink.int_ok
        THEN [raised |-> TRUE, uplink |-> 0, downlink |-> 0, total |-> 0]
        ELSE [raised |-> FALSE, uplink |-> uplink.bytes,
              downlink |-> downlink.bytes,
              total |-> uplink.bytes + downlink.bytes]

\* get_user_traffic as it would be without its outer 'except Exception'.
get_user_traffic_unguarded(uplink_result, downlink_result) ==
    traffic_body(uplink_result, downlink_result)

\* ServerXRayManager.get_user_traffic.
get_user_traffic(uplink_result, downlink_result) ==
    IF traffic_body(uplink_result, downlink_result).raised
    THEN ZeroTraffic
    ELSE traffic_body(uplink_result, downlink_result)

-----------------------------------------------------------------------------
\* utils/database.py: the ledger.

get_user(user_id) == user_id \in users

\* add_subscription as it would be without its test for the user.
add_subscription_any_user(user_id, days, payment_id, server_id) ==
    << [id |-> next_uuid,
        user_id |-> user_id,
        created_at |-> now,
        expires_at |-> now + (days * DaySeconds),
        payment_id |-> payment_id,
        is_active |-> TRUE,
        server_id |-> server_id,
        vless_id |-> next_uuid + 1,
        is_trial |-> FALSE] >>

\* Database.add_subscription: <<the new subscription>>, or None for an unknown
\* user.  config_id and data.vless_id are two fresh uuid4 values.
add_subscription(user_id, days, payment_id, server_id) ==
    IF ~get_user(user_id)
    THEN None
    ELSE << [id |-> next_uuid,
          user_id |-> user_id,
          created_at |-> now,
          expires_at |-> now + (days * DaySeconds),
          payment_id |-> payment_id,
          is_active |-> TRUE,
          server_id |-> server_id,
          vless_id |-> next_uuid + 1,
          is_trial |-> FALSE] >>

get_user_subscriptions(user_id) ==
    SelectSeq(subs, LAMBDA s : s.user_id = user_id)

\* get_active_subscriptions as it would be if it looked at is_active alone.
get_active_subscriptions_unexpired(user_id, server_id) ==
    IF Truthy(server_id)
    THEN SelectSeq(get_user_subscriptions(user_id),
                   LAMBDA s : s.is_active /\ s.server_id = server_id)
    ELSE SelectSeq(get_user_subscriptions(user_id), LAMBDA s : s.is_active)

\* Database.get_active_subscriptions; server_id = None is no server filter.
get_active_subscriptions(user_id, server_id) ==
    IF Truthy(server_id)
    THEN SelectSeq(get_user_subscriptions(user_id),
                   LAMBDA s : /\ s.is_active /\ s.expires_at > now
                              /\ s.server_id = server_id)
    ELSE SelectSeq(get_user_subscriptions(user_id),
                   LAMBDA s : s.is_active /\ s.expires_at > now)

\* Database.deactivate_subscription: the subscriptions afterwards and the
\* returned bool.
deactivate_subscription(user_id, subscription_id) ==
    LET found == { i \in DOMAIN subs : /\ subs[i].user_id = user_id
                                       /\ subs[i].id = subscription_id }
    IN  IF get_user(user_id) /\ found # {}
        THEN [subs |-> [subs EXCEPT
                          ![CHOOSE i \in found : \A j \in found : i <= j]
                              .is_active = FALSE],
              result |-> TRUE]
        ELSE [subs |-> subs, result |-> FALSE]

\* extend_subscription as it would be if it always added to the old expiry.
extend_subscription_from_old(user_id, subscription_id, days) ==
    LET found == { i \in DOMAIN subs : /\ subs[i].user_id = user_id
                                       /\ subs[i].id = subscription_id }
        i == CHOOSE k \in found : \A j \in found : k <= j
    IN  IF get_user(user_id) /\ found # {}
        THEN [subs |-> [subs EXCEPT ![i].expires_at = @ + (days * DaySeconds),
                                    ![i].is_active = TRUE],
              result |-> << [subs[i] EXCEPT
                               !.expires_at = @ + (days * DaySeconds),
                               !.is_active = TRUE] >>]
        ELSE [subs |-> subs, result |-> None]

\* Database.extend_subscription: the subscriptions afterwards and <<the extended
\* subscription>>, or None for an unknown user or subscription id.
extend_subscription(user_id, subscription_id, days) ==
    LET found == { i \in DOMAIN subs : /\ subs[i].user_id = user_id
                                       /\ subs[i].id = subscription_id }
        i == CHOOSE k \in found : \A j \in found : k <= j
        expires_at == IF subs[i].expires_at < now
                      THEN now + (days * DaySeconds)
                      ELSE subs[i].expires_at + (days * DaySeconds)
    IN  IF get_user(user_id) /\ found # {}
        THEN [subs |-> [subs EXCEPT ![i].expires_at = expires_at,
                                    ![i].is_active = TRUE],
              result |-> << [subs[i] EXCEPT !.expires_at = expires_at,
                                            !.is_active = TRUE] >>]
        ELSE [subs |-> subs, result |-> None]

\* record_payment as it would be without its 'not in' test: the record of an
\* id already recorded is written anew.
record_payment_overwrite(pays, user_id, payment_id, amount, currency, status, days, server_id) ==
    [ q \in DOMAIN pays \cup {payment_id} |->
        IF q = payment_id
        THEN [id |-> payment_id, user_id |-> user_id, amount |-> amount,
              currency |-> currency, status |-> status, server_id |-> server_id,
              created_at |-> now, updated_at |-> now, subscription_days |-> days]
        ELSE pays[q] ]

\* Database.record_payment: a new record only for an id not yet recorded.
record_payment(pays, user_id, payment_id, amount, currency, status, days, server_id) ==
    IF payment_id \notin DOMAIN pays
    THEN pays @@ (payment_id :>
            [id |-> payment_id, user_id |-> user_id, amount |-> amount,
             currency |-> currency, status |-> status, server_id |-> server_id,
             created_at |-> now, updated_at |-> now, subscription_days |-> days])
    ELSE pays

\* Database.update_payment_status.
update_payment_status(pays, payment_id, status) ==
    IF payment_id \in DOMAIN pays
    THEN [pays EXCEPT ![payment_id].status = status,
                      ![payment_id].updated_at = now]
    ELSE pays

\* Database.get_payment: <<the record>>, or None.
get_payment(payment_id) ==
    IF payment_id \in DOMAIN payments THEN << payments[payment_id] >> ELSE None

-----------------------------------------------------------------------------
\* utils/payments.py: the provider boundary.  The provider holds a status for
\* every invoice it issued; an answer is that status, or "error" for a failed
\* request (and for an invoice the provider does not know).

ProviderAnswers(payment_id) ==
    (IF payment_id \in DOMAIN provider THEN {provider[payment_id]} ELSE {})
        \cup {"error"}

\* CryptoBot.check_payment: (is_paid, status).
CryptoBot_check_payment(answer) ==
    IF answer = "paid" THEN <<TRUE, "paid">>
    ELSE IF answer = "expired" THEN <<FALSE, "expired">>
    ELSE IF answer = "active" THEN <<FALSE, "pending">>
    ELSE <<FALSE, "error">>

\* payment_manager.check_crypto_payment, which bot.py calls and utils/payments.py
\* does not define: the is_paid part of the provider's check.
check_crypto_payment(answer) == CryptoBot_check_payment(answer)[1]

-----------------------------------------------------------------------------
\* bot.py: the strings the handlers build.

ServerButtons == { <<"server">> \o cfg[i].id : i \in DOMAIN cfg }
PayButtons(days) == { <<"pay", "crypto", days>>, <<"pay", "stars", days>> }
CheckButton(payment_id) == <<"check", "payment">> \o payment_id
JobName(payment_id, user_id) == (<<"payment">> \o payment_id) \o <<user_id>>
PaidEmail(user_id, sub_id) == <<"user", user_id, sub_id>>
TrialEmail(user_id, sub_id) == <<"trial", "user", user_id, sub_id>>

\* The status a confirmed payment is stored with.
Completed == "completed"

\* Python's str.startswith('crypto') on a payment id.
StartsWithCrypto(payment_id) == payment_id # None /\ payment_id[1] = "crypto"

-----------------------------------------------------------------------------
Init ==
    /\ now = 0
    /\ cfg \in Configs
    /\ users = {}
    /\ subs = <<>>
    /\ payments = <<>>
    /\ docs = [p \in Paths |-> NoFile]
    /\ jobs = <<>>
    /\ user_data = [u \in Users |->
            [selected_plan |-> None, selected_server_id |-> None,
             is_trial |-> FALSE, payment_job |-> None]]
    /\ shown = {}
    /\ provider = <<>>
    /\ next_uuid = 1
    /\ last = [op |-> "none", target |-> None, answer |-> "none",
               result |-> "none"]

\* The wall clock advances.
Tick ==
    /\ now < MaxNow
    /\ now' = now + 1
    /\ UNCHANGED <<cfg, users, subs, payments, docs, jobs, user_data, shown,
                   provider, next_uuid, last>>

\* The provider sees an invoice paid, or lets it expire.
provider_paid(payment_id) ==
    /\ payment_id \in DOMAIN provider
    /\ provider[payment_id] = "active"
    /\ provider' = [provider EXCEPT ![payment_id] = "paid"]
    /\ UNCHANGED <<now, cfg, users, subs, payments, docs, jobs, user_data, shown,
                   next_uuid, last>>

provider_expired(payment_id) ==
    /\ payment_id \in DOMAIN provider
    /\ provider[payment_id] = "active"
    /\ provider' = [provider EXCEPT ![payment_id] = "expired"]
    /\ UNCHANGED <<now, cfg, users, subs, payments, docs, jobs, user_data, shown,
                   next_uuid, last>>

\* start_command: Database.add_user, then the main menu.
start_command(u) ==
    /\ users' = users \cup {u}
    /\ UNCHANGED <<now, cfg, subs, payments, docs, jobs, user_data, shown,
                   provider, next_uuid, last>>

\* show_payment_options: the pay buttons of the selected plan; with no plan in
\* user_data an error text, and plan['price'] raises for the plan that the
\* stars branch of process_payment stored (it has no 'price').
show_payment_options(u, ud) ==
    IF ud[u].selected_plan # None /\ ud[u].selected_plan[2] = "priced"
    THEN shown \cup PayButtons(ud[u].selected_plan[1])
    ELSE shown

\* select_plan: stores the plan, then the server choice (more than one server)
\* or straight the payment options.
select_plan(u, days) ==
    /\ days \in PlanDays
    /\ LET available_servers == get_available_servers
           ud1 == [user_data EXCEPT ![u].selected_plan = <<days, "priced">>]
           ud2 == [ud1 EXCEPT ![u].selected_server_id =
                        IF Len(available_servers) > 0
                        THEN available_servers[1] ELSE None]
       IN  IF Len(available_servers) > 1
           THEN /\ user_data' = ud1
                /\ shown' = shown \cup ServerButtons
           ELSE /\ user_data' = ud2
                /\ shown' = show_payment_options(u, ud2)
    /\ UNCHANGED <<now, cfg, users, subs, payments, docs, jobs, provider,
                   next_uuid, last>>

\* The trial provisioning that activate_trial and process_trial_activation
\* share: the subscription, its is_trial mark, the gateway client, and the
\* client's id stored as data.vless_id.  A failed add_user returns a dict with
\* no 'id', so xray_user['id'] raises and data.vless_id keeps its first value.
TrialProvision(u, server_id, read_ok, write_ok) ==
    LET subscription == add_subscription(u, TrialDays, None, server_id)
    IN  IF subscription # None
        THEN LET xray_user == xray_manager_add_user(docs,
                                  TrialEmail(u, subscription[1].id), server_id,
                                  next_uuid + 2, read_ok, write_ok)
             IN  /\ Len(subs) + Len(jobs) < MaxSubs
                 /\ docs' = xray_user.docs
                 /\ subs' = Append(subs,
                        [subscription[1] EXCEPT
                            !.is_trial = TRUE,
                            !.vless_id = IF xray_user.result.error
                                         THEN @ ELSE xray_user.result.id])
                 /\ next_uuid' = next_uuid + 3
        ELSE UNCHANGED <<subs, docs, next_uuid>>

\* process_trial_activation, entered with user_data as the caller left it.
process_trial_activation(u, ud, read_ok, write_ok) ==
    /\ user_data' = [ud EXCEPT ![u].is_trial = FALSE]
    /\ TrialProvision(u, ud[u].selected_server_id, read_ok, write_ok)

\* activate_trial without its trial_used test: only an active subscription
\* refuses the trial.
activate_trial_unchecked(u, read_ok, write_ok) ==
    LET active_subs == get_active_subscriptions(u, None)
        available_servers == get_available_servers
    IN  /\ IF Len(active_subs) > 0
           THEN UNCHANGED <<user_data, shown, subs, docs, next_uuid>>
           ELSE IF Len(available_servers) > 1
           THEN /\ user_data' = [user_data EXCEPT ![u].is_trial = TRUE]
                /\ shown' = shown \cup ServerButtons
                /\ UNCHANGED <<subs, docs, next_uuid>>
           ELSE /\ TrialProvision(u, IF Len(available_servers) > 0
                                     THEN available_servers[1] ELSE None,
                                  read_ok, write_ok)
                /\ UNCHANGED <<user_data, shown>>
        /\ UNCHANGED <<now, cfg, users, payments, jobs, provider, last>>

\* activate_trial: refused for a user with an active subscription or an
\* earlier trial; with several servers it only marks the trial and shows the
\* server choice, otherwise it provisions at once.
activate_trial(u, read_ok, write_ok) ==
    LET active_subs == get_active_subscriptions(u, None)
        all_subs == get_user_subscriptions(u)
        trial_used == \E i \in DOMAIN all_subs : all_subs[i].is_trial
        available_servers == get_available_servers
    IN  /\ IF Len(active_subs) > 0 \/ trial_used
           THEN UNCHANGED <<user_data, shown, subs, docs, next_uuid>>
           ELSE IF Len(available_servers) > 1
           THEN /\ user_data' = [user_data EXCEPT ![u].is_trial = TRUE]
                /\ shown' = shown \cup ServerButtons
                /\ UNCHANGED <<subs, docs, next_uuid>>
           ELSE /\ TrialProvision(u, IF Len(available_servers) > 0
                                     THEN available_servers[1] ELSE None,
                                  read_ok, write_ok)
                /\ UNCHANGED <<user_data, shown>>
        /\ UNCHANGED <<now, cfg, users, payments, jobs, provider, last>>

\* process_server_selection: the server id is split('_')[1] of the button's
\* data; then the trial, if one is marked, else the payment options.
process_server_selection(u, data, read_ok, write_ok) ==
    /\ data \in shown
    /\ data[1] = "server"
    /\ LET server_id == SplitAt(data, 1)
           ud == [user_data EXCEPT ![u].selected_server_id = server_id]
       IN  IF user_data[u].is_trial
           THEN /\ process_trial_activation(u, ud, read_ok, write_ok)
                /\ UNCHANGED shown
           ELSE /\ user_data' = ud
                /\ shown' = show_payment_options(u, ud)
                /\ UNCHANGED <<subs, docs, next_uuid>>
    /\ UNCHANGED <<now, cfg, users, payments, jobs, provider, last>>

\* payment_manager.create_crypto_invoice, which bot.py calls and
\* utils/payments.py does not define: a payment URL, or nothing.  The provider
\* then holds an invoice for the payment id.
create_crypto_invoice(payment_id, invoice_ok) ==
    IF invoice_ok /\ payment_id \notin DOMAIN provider
    THEN provider @@ (payment_id :> "active")
    ELSE provider

\* process_payment: method and days are split('_')[1] and [2] of the button's
\* data.  The crypto branch records the payment, asks for an invoice and, with
\* one, shows the check button and starts the repeating job; the stars branch
\* is handle_stars_payment, which records the payment and starts nothing.
process_payment(u, data, invoice_ok) ==
    /\ data \in shown
    /\ data[1] = "pay"
    /\ LET payment_method == data[2]
           days == data[3]
           plan == CHOOSE p \in Plans : p.days = days
           server_id == user_data[u].selected_server_id
           payment_id == <<payment_method, now, u>>
       IN  /\ payment_id \notin DOMAIN payments
                => Cardinality(DOMAIN payments) < MaxPayments
           /\ IF payment_method = "crypto"
              THEN /\ payments' = record_payment(payments, u, payment_id,
                                     plan.price, "USD", "pending", days, server_id)
                   /\ provider' = create_crypto_invoice(payment_id, invoice_ok)
                   /\ IF invoice_ok
                      THEN /\ Len(subs) + Len(jobs) < MaxSubs
                           /\ shown' = shown \cup {CheckButton(payment_id)}
                           /\ jobs' = Append(jobs,
                                  [name |-> JobName(payment_id, u),
                                   payment_id |-> payment_id,
                                   user_id |-> u,
                                   server_id |-> server_id,
                                   pc |-> "idle",
                                   removed |-> FALSE])
                           /\ user_data' = [user_data EXCEPT
                                  ![u].payment_job = JobName(payment_id, u)]
                      ELSE UNCHANGED <<shown, jobs, user_data>>
              ELSE /\ payments' = record_payment(payments, u, payment_id,
                                     plan.price_stars, "STARS", "pending", days,
                                     server_id)
                   /\ user_data' = [user_data EXCEPT
                          ![u].selected_plan = <<days, "stars">>]
                   /\ UNCHANGED <<provider, jobs, shown>>
    /\ UNCHANGED <<now, cfg, users, subs, docs, next_uuid, last>>

-----------------------------------------------------------------------------
\* bot.py: the two payment checks.

\* What both checks do once the provider confirmed the payment
\* (check_payment_job lines 870-888, check_payment_manually lines 774-795):
\* the status, the subscription, the gateway client, the client's id stored as
\* data.vless_id.  result "raised" is xray_user['id'] raising KeyError on the
\* dict of a failed add_user; "no_subscription" is add_subscription's None.
complete_payment(user_id, payment_id, server_id, read_ok, write_ok) ==
    LET paid == update_payment_status(payments, payment_id, Completed)
        subscription == add_subscription(user_id,
                            payments[payment_id].subscription_days,
                            payment_id, server_id)
    IN  IF subscription # None
        THEN LET xray_user == xray_manager_add_user(docs,
                                  PaidEmail(user_id, subscription[1].id),
                                  server_id, next_uuid + 2, read_ok, write_ok)
             IN  [payments |-> paid,
                  subs |-> Append(subs,
                        [subscription[1] EXCEPT
                            !.vless_id = IF xray_user.result.error
                                         THEN @ ELSE xray_user.result.id]),
                  docs |-> xray_user.docs,
                  next_uuid |-> next_uuid + 3,
                  result |-> IF xray_user.result.error
                             THEN "raised" ELSE "success"]
        ELSE [payments |-> paid, subs |-> subs, docs |-> docs,
              next_uuid |-> next_uuid, result |-> "no_subscription"]

\* Job.schedule_removal for the jobs of a name: a job that is not running
\* leaves the queue, a running one finishes its run first.
schedule_removal(js, name) ==
    LET kept == SelectSeq(js, LAMBDA j : j.name # name \/ j.pc = "awaiting")
    IN  [ i \in DOMAIN kept |->
            IF kept[i].name = name THEN [kept[i] EXCEPT !.removed = TRUE]
            ELSE kept[i] ]

\* The queue after a run of job i that did not remove itself.
AfterRun(i) ==
    IF jobs[i].removed THEN RemoveAt(jobs, i)
    ELSE [jobs EXCEPT ![i].pc = "idle"]

\* check_payment_job_begin as it would be if only a missing payment ended the
\* job.
check_payment_job_begin_any_status(i) ==
    /\ i \in DOMAIN jobs
    /\ jobs[i].pc = "idle"
    /\ LET payment == get_payment(jobs[i].payment_id)
       IN  IF payment = None
           THEN /\ jobs' = RemoveAt(jobs, i)
                /\ last' = [op |-> "job", target |-> jobs[i].payment_id,
                            answer |-> "none", result |-> "stopped"]
           ELSE /\ jobs' = IF StartsWithCrypto(jobs[i].payment_id)
                           THEN [jobs EXCEPT ![i].pc = "awaiting"]
                           ELSE jobs
                /\ UNCHANGED last
    /\ UNCHANGED <<now, cfg, users, subs, payments, docs, user_data, shown,
                   provider, next_uuid>>

\* check_payment_job up to its await (lines 845-868): a missing or completed
\* payment ends the job, otherwise the provider is asked.
check_payment_job_begin(i) ==
    /\ i \in DOMAIN jobs
    /\ jobs[i].pc = "idle"
    /\ LET payment == get_payment(jobs[i].payment_id)
       IN  IF payment = None \/ payment[1].status = Completed
           THEN /\ jobs' = RemoveAt(jobs, i)
                /\ last' = [op |-> "job", target |-> jobs[i].payment_id,
                            answer |-> "none", result |-> "stopped"]
           ELSE /\ jobs' = IF StartsWithCrypto(jobs[i].payment_id)
                           THEN [jobs EXCEPT ![i].pc = "awaiting"]
                           ELSE jobs
                /\ UNCHANGED last
    /\ UNCHANGED <<now, cfg, users, subs, payments, docs, user_data, shown,
                   provider, next_uuid>>

\* check_payment_job_end as it would be if an unconfirmed payment ended the
\* job.
check_payment_job_end_once(i, answer, read_ok, write_ok) ==
    /\ i \in DOMAIN jobs
    /\ jobs[i].pc = "awaiting"
    /\ answer \in ProviderAnswers(jobs[i].payment_id)
    /\ LET job == jobs[i]
           payment_verified == check_crypto_payment(answer)
           done == complete_payment(job.user_id, job.payment_id,
                                    job.server_id, read_ok, write_ok)
       IN  IF payment_verified
           THEN /\ payments' = done.payments
                /\ subs' = done.subs
                /\ docs' = done.docs
                /\ next_uuid' = done.next_uuid
                /\ jobs' = IF done.result = "raised"
                           THEN AfterRun(i) ELSE RemoveAt(jobs, i)
                /\ last' = [op |-> "job", target |-> job.payment_id,
                            answer |-> answer, result |-> done.result]
           ELSE /\ jobs' = RemoveAt(jobs, i)
                /\ last' = [op |-> "job", target |-> job.payment_id,
                            answer |-> answer, result |-> "unconfirmed"]
                /\ UNCHANGED <<payments, subs, docs, next_uuid>>
    /\ UNCHANGED <<now, cfg, users, user_data, shown, provider>>

\* check_payment_job from the provider's answer on (lines 868-914).  The user
\* and the server are those of the job's data.
check_payment_job_end(i, answer, read_ok, write_ok) ==
    /\ i \in DOMAIN jobs
    /\ jobs[i].pc = "awaiting"
    /\ answer \in ProviderAnswers(jobs[i].payment_id)
    /\ LET job == jobs[i]
           payment_verified == check_crypto_payment(answer)
           done == complete_payment(job.user_id, job.payment_id,
                                    job.server_id, read_ok, write_ok)
       IN  IF payment_verified
           THEN /\ payments' = done.payments
                /\ subs' = done.subs
                /\ docs' = done.docs
                /\ next_uuid' = done.next_uuid
                /\ jobs' = IF done.result = "raised"
                           THEN AfterRun(i) ELSE RemoveAt(jobs, i)
                /\ last' = [op |-> "job", target |-> job.payment_id,
                            answer |-> answer, result |-> done.result]
           ELSE /\ jobs' = AfterRun(i)
                /\ last' = [op |-> "job", target |-> job.payment_id,
                            answer |-> answer, result |-> "unconfirmed"]
                /\ UNCHANGED <<payments, subs, docs, next_uuid>>
    /\ UNCHANGED <<now, cfg, users, user_data, shown, provider>>

\* check_payment_manually as it would be if it looked the payment up under the
\* whole id of the button.
check_payment_manually_whole_id(u, data, answer, read_ok, write_ok) ==
    /\ data \in shown
    /\ data[1] = "check" /\ data[2] = "payment"
    /\ LET payment_id == SubSeq(data, 3, Len(data))
           target == SubSeq(data, 3, Len(data))
           payment == get_payment(payment_id)
           payment_verified == IF StartsWithCrypto(payment_id)
                               THEN check_crypto_payment(answer) ELSE FALSE
           done == complete_payment(u, payment_id, payment[1].server_id,
                                    read_ok, write_ok)
       IN  /\ answer \in ProviderAnswers(payment_id)
           /\ IF payment = None
              THEN /\ last' = [op |-> "manual", target |-> target,
                               answer |-> "none", result |-> "not_found"]
                   /\ UNCHANGED <<payments, subs, docs, next_uuid, jobs,
                                  user_data, shown>>
              ELSE IF payment[1].status = Completed
              THEN /\ last' = [op |-> "manual", target |-> target,
                               answer |-> "none",
                               result |-> "already_processed"]
                   /\ UNCHANGED <<payments, subs, docs, next_uuid, jobs,
                                  user_data, shown>>
              ELSE IF payment_verified
              THEN /\ Len(done.subs) <= MaxSubs
                   /\ payments' = done.payments
                   /\ subs' = done.subs
                   /\ docs' = done.docs
                   /\ next_uuid' = done.next_uuid
                   /\ IF done.result = "success"
                         /\ user_data[u].payment_job # None
                      THEN /\ jobs' = schedule_removal(jobs,
                                          user_data[u].payment_job)
                           /\ user_data' = [user_data EXCEPT
                                               ![u].payment_job = None]
                      ELSE UNCHANGED <<jobs, user_data>>
                   /\ last' = [op |-> "manual", target |-> target,
                               answer |-> answer,
                               result |-> IF done.result = "no_subscription"
                                          THEN "activation_error"
                                          ELSE done.result]
                   /\ UNCHANGED shown
              ELSE /\ last' = [op |-> "manual", target |-> target,
                               answer |-> answer, result |-> "unconfirmed"]
                   /\ shown' = shown \cup {CheckButton(payment_id)}
                   /\ UNCHANGED <<payments, subs, docs, next_uuid, jobs,
                                  user_data>>
    /\ UNCHANGED <<now, cfg, users, provider>>

\* check_payment_manually.  The payment id is split('_')[2] of the button's
\* data.  The user is the one who pressed the button, the server the payment's.
\* Past the two early returns the handler is written without its await: no
\* recorded payment id has a single piece, so the lookup never passes them.
check_payment_manually(u, data, answer, read_ok, write_ok) ==
    /\ data \in shown
    /\ data[1] = "check" /\ data[2] = "payment"
    /\ LET payment_id == SplitAt(data, 2)
           target == SubSeq(data, 3, Len(data))
           payment == get_payment(payment_id)
           payment_verified == IF StartsWithCrypto(payment_id)
                               THEN check_crypto_payment(answer) ELSE FALSE
           done == complete_payment(u, payment_id, payment[1].server_id,
                                    read_ok, write_ok)
       IN  /\ answer \in ProviderAnswers(payment_id)
           /\ IF payment = None
              THEN /\ last' = [op |-> "manual", target |-> target,
                               answer |-> "none", result |-> "not_found"]
                   /\ UNCHANGED <<payments, subs, docs, next_uuid, jobs,
                                  user_data, shown>>
              ELSE IF payment[1].status = Completed
              THEN /\ last' = [op |-> "manual", target |-> target,
                               answer |-> "none",
                               result |-> "already_processed"]
                   /\ UNCHANGED <<payments, subs, docs, next_uuid, jobs,
                                  user_data, shown>>
              ELSE IF payment_verified
              THEN /\ Len(done.subs) <= MaxSubs
                   /\ payments' = done.payments
                   /\ subs' = done.subs
                   /\ docs' = done.docs
                   /\ next_uuid' = done.next_uuid
                   /\ IF done.result = "success"
                         /\ user_data[u].payment_job # None
                      THEN /\ jobs' = schedule_removal(jobs,
                                          user_data[u].payment_job)
                           /\ user_data' = [user_data EXCEPT
                                               ![u].payment_job = None]
                      ELSE UNCHANGED <<jobs, user_data>>
                   /\ last' = [op |-> "manual", target |-> target,
                               answer |-> answer,
                               result |-> IF done.result = "no_subscription"
                                          THEN "activation_error"
                                          ELSE done.result]
                   /\ UNCHANGED shown
              ELSE /\ last' = [op |-> "manual", target |-> target,
                               answer |-> answer, result |-> "unconfirmed"]
                   /\ shown' = shown \cup {CheckButton(payment_id)}
                   /\ UNCHANGED <<payments, subs, docs, next_uuid, jobs,
                                  user_data>>
    /\ UNCHANGED <<now, cfg, users, provider>>

-----------------------------------------------------------------------------
Next ==
    \/ Tick
    \/ \E p \in DOMAIN provider : provider_paid(p)
    \/ \E p \in DOMAIN provider : provider_expired(p)
    \/ \E u \in Users : start_command(u)
    \/ \E u \in Users, days \in PlanDays : select_plan(u, days)
    \/ \E u \in Users, r, w \in BOOLEAN : activate_trial(u, r, w)
    \/ \E u \in Users, data \in shown, r, w \in BOOLEAN :
            process_server_selection(u, data, r, w)
    \/ \E u \in Users, data \in shown, ok \in BOOLEAN :
            process_payment(u, data, ok)
    \/ \E i \in DOMAIN jobs : check_payment_job_begin(i)
    \/ \E i \in DOMAIN jobs, r, w \in BOOLEAN,
          answer \in {"active", "paid", "expired", "error"} :
            check_payment_job_end(i, answer, r, w)
    \/ \E u \in Users, data \in shown, r, w \in BOOLEAN,
          answer \in {"active", "paid", "expired", "error"} :
            check_payment_manually(u, data, answer, r, w)

Spec == Init /\ [][Next]_vars

-----------------------------------------------------------------------------
\* Properties of the payment reconciliation.

\* The subscriptions made from a payment, and the jobs that check it.
SubsOf(p) == { i \in DOMAIN subs : subs[i].payment_id = p }
JobsOf(p) == { i \in DOMAIN jobs : jobs[i].payment_id = p }

\* C1: for every payment id, at most one subscription of the ledger has that
\* payment_id, whatever checks for it have run and however they interleaved.
C1_AtMostOneSubscription ==
    \A p \in DOMAIN payments : Cardinality(SubsOf(p)) <= 1

\* C2: a stored payment stays stored, and a step changes its status only from
\* pending, and only to the paid status or to expired; a paid or expired
\* payment keeps its status under every later check and record_payment.
C2_StatusMonotonic ==
    [][ \A p \in DOMAIN payments :
            /\ p \in DOMAIN payments'
            /\ payments'[p].status # payments[p].status
                => /\ payments[p].status = "pending"
                   /\ payments'[p].status \in {Completed, "expired"} ]_vars

\* C2, its case: a paid payment on which a later check has acted again (a
\* second check wrote its status and made a second subscription from it).
C2_Witness ==
    \E p \in DOMAIN payments :
        /\ payments[p].status = Completed
        /\ Cardinality(SubsOf(p)) = 2

\* C3: a subscription made from payment P has P's id (it is in SubsOf(P)),
\* P's server_id, is active, and expires subscription_days * 86400 seconds
\* after its creation.
C3_SubscriptionMatchesPayment ==
    \A p \in DOMAIN payments : \A i \in SubsOf(p) :
        /\ subs[i].server_id = payments[p].server_id
        /\ subs[i].is_active
        /\ subs[i].expires_at =
              subs[i].created_at + payments[p].subscription_days * DaySeconds

\* C4: for every subscription made from a payment P, the document of P's
\* target server holds a client whose id is the subscription's data.vless_id.
C4_LedgerMatchesGateway ==
    \A p \in DOMAIN payments : \A i \in SubsOf(p) :
        \E c \in Clients(docs[config_path(get_server_manager(payments[p].server_id))]) :
            c.id = subs[i].vless_id

\* C5: once the provider has answered a check of a payment with 'expired',
\* the payment is stored as expired and no subscription references it.
C5_ExpiredIsRecorded ==
    last.answer = "expired"
        => /\ last.target \in DOMAIN payments
           /\ payments[last.target].status = "expired"
           /\ SubsOf(last.target) = {}

\* C6: a step that makes a subscription from a payment for server S leaves the
\* document of every configured server other than S as it was.
C6_OtherServersUnchanged ==
    [][ (Len(subs') = Len(subs) + 1 /\ subs'[Len(subs')].payment_id # None)
            => \A k \in DOMAIN cfg :
                  cfg[k].id # subs'[Len(subs')].server_id
                      => docs'[config_path(k)] = docs[config_path(k)] ]_vars

\* C7: no recurring job asks the provider again about a payment that has
\* reached a terminal state: one stored as paid or expired, or one that the
\* provider's answer to the latest check has shown expired.
C7_NoCallAfterTerminal ==
    [][ \A i \in DOMAIN jobs :
            (jobs[i].pc = "idle" /\ jobs' = [jobs EXCEPT ![i].pc = "awaiting"])
                => /\ payments[jobs[i].payment_id].status \notin {Completed, "expired"}
                   /\ ~(last.answer = "expired" /\ last.target = jobs[i].payment_id)
      ]_vars

\* C8: the recurring job is all that makes a payment's subscription, so a
\* payment that the provider reports paid and that no job is left to check is
\* stored as paid and has a subscription referencing it.
C8_PaidEndsWithSubscription ==
    \A p \in DOMAIN provider :
        (provider[p] = "paid" /\ JobsOf(p) = {})
            => /\ p \in DOMAIN payments
               /\ payments[p].status = Completed
               /\ SubsOf(p) # {}

\* C9: a manual check of a pending payment P that the provider reports paid
\* stores what the job's check stores from the same state: P as paid.
C9_ManualAsTimer ==
    [][ (/\ last' # last
         /\ last'.op = "manual"
         /\ last'.target \in DOMAIN provider
         /\ provider[last'.target] = "paid"
         /\ payments[last'.target].status = "pending")
            => payments' = update_payment_status(payments, last'.target, Completed)
      ]_vars

\* C10: a check that the provider answered 'paid' never raises: it ends with
\* success or with a reported failure of the set-up, the payment stored paid.
C10_SetupFailureIsReported ==
    last.answer = "paid"
        => /\ last.result \in {"success", "setup_failed", "activation_error",
                               "no_subscription"}
           /\ payments[last.target].status = Completed

-----------------------------------------------------------------------------
\* The gateway on its own: the methods of ServerXRayManager called directly, in
\* any order and with any arguments, as XRayManager's methods of the same name
\* call them on the manager that a server id resolves to.

MaxClients == 2

\* The servers of config.yaml with everything a manager keeps of them.  The
\* first server has a domain and an ip, an ip only, or neither; the servers
\* name their own documents or share the default one.
Server(id, path, domain, ip) ==
    [id |-> id, config_path |-> path, domain |-> domain, ip |-> ip,
     reality_port |-> 443, ws_port |-> 8443, sni |-> "www.microsoft.com",
     public_key |-> "pbk-" \o domain, short_id |-> "sid"]
GwConfigs ==
    { << Server(<<"eu1">>, p[1], a[1], a[2]),
         Server(<<"us", "2">>, p[2], "us2.example.org", "198.51.100.2") >> :
        p \in { <<"/etc/xray/eu1.json", "/etc/xray/us2.json">>,
                <<DefaultPath, DefaultPath>> },
        a \in { <<"eu1.example.org", "203.0.113.1">>, <<"", "203.0.113.1">>,
                <<"", "">> } }

\* The emails and protocols the calls are made with.
Emails == { PaidEmail(1, 1), TrialEmail(1, 2) }
Protocols == { "reality", "websocket" }

\* XRayManager.__new__: the managers of the configured servers, and nothing
\* else in existence yet.
GwStart ==
    /\ now = 0
    /\ cfg \in GwConfigs
    /\ users = {}
    /\ subs = <<>>
    /\ payments = <<>>
    /\ docs = [p \in Paths |-> NoFile]
    /\ jobs = <<>>
    /\ user_data = [u \in Users |-> None]
    /\ shown = {}
    /\ provider = <<>>
    /\ next_uuid = 1

GwInit ==
    /\ GwStart
    /\ last = [op |-> "none", mgr |-> 0, email |-> None, protocol |-> "",
               uuid |-> 0, read_ok |-> TRUE, write_ok |-> TRUE, result |-> None,
               reloaded |-> FALSE]

GwFrame == UNCHANGED <<now, cfg, users, subs, payments, jobs, user_data, shown,
                       provider>>

\* The server ids a call may name: those of the registry, and none.
ServerIds == { cfg[i].id : i \in DOMAIN cfg } \cup {None}

\* XRayManager.add_user(email, protocol, server_id), with its fresh uuid4.
call_add_user(server_id, email, protocol, read_ok, write_ok) ==
    /\ next_uuid <= MaxClients
    /\ LET mgr == get_server_manager(server_id)
           r == add_user(docs, config_path(mgr), email, protocol, next_uuid,
                         read_ok, write_ok)
       IN  /\ docs' = r.docs
           /\ last' = [op |-> "add_user", mgr |-> mgr, email |-> email,
                       protocol |-> protocol, uuid |-> next_uuid,
                       read_ok |-> read_ok,
                       write_ok |-> write_ok, result |-> r.result,
                       reloaded |-> write_ok]
    /\ next_uuid' = next_uuid + 1
    /\ GwFrame

\* XRayManager.get_user(email, server_id).
call_get_user(server_id, email, read_ok) ==
    /\ LET mgr == get_server_manager(server_id)
       IN  last' = [op |-> "get_user", mgr |-> mgr, email |-> email,
                    protocol |-> "", uuid |-> 0, read_ok |-> read_ok,
                    write_ok |-> TRUE,
                    result |-> xray_get_user(docs, config_path(mgr), email,
                                             read_ok),
                    reloaded |-> FALSE]
    /\ UNCHANGED <<docs, next_uuid>>
    /\ GwFrame

\* XRayManager.remove_user(email, server_id).
call_remove_user(server_id, email, read_ok, write_ok) ==
    /\ LET mgr == get_server_manager(server_id)
           r == remove_user(docs, config_path(mgr), email, read_ok, write_ok)
       IN  /\ docs' = r.docs
           /\ last' = [op |-> "remove_user", mgr |-> mgr, email |-> email,
                       protocol |-> "", uuid |-> 0, read_ok |-> read_ok,
                       write_ok |-> write_ok, result |-> r.result,
                       reloaded |-> r.reloaded]
    /\ UNCHANGED next_uuid
    /\ GwFrame

GwNext ==
    \/ \E server_id \in ServerIds, email \in Emails, protocol \in Protocols,
          read_ok, write_ok \in BOOLEAN :
            call_add_user(server_id, email, protocol, read_ok, write_ok)
    \/ \E server_id \in ServerIds, email \in Emails, read_ok \in BOOLEAN :
            call_get_user(server_id, email, read_ok)
    \/ \E server_id \in ServerIds, email \in Emails, read_ok, write_ok \in BOOLEAN :
            call_remove_user(server_id, email, read_ok, write_ok)

GwSpec == GwInit /\ [][GwNext]_vars

\* C11: on every server, a get_user(email) made right after an add_user(email)
\* that returned an id (both calls having read and written the document)
\* returns a client whose id is the id add_user returned.
C11_GetAfterAdd ==
    [][ ( /\ last.op = "add_user" /\ ~last.result.error
          /\ last.read_ok
          /\ last'.op = "get_user" /\ last'.read_ok
          /\ last'.mgr = last.mgr /\ last'.email = last.email )
        => ( /\ last'.result # None
             /\ last'.result[1].id = last.result.id ) ]_vars

\* C12: add_user is idempotent per email: whatever add_user and remove_user
\* calls were made, no document holds two client records with the same email.
C12_OneRecordPerLabel ==
    \A p \in Paths : \A e \in Emails :
        Len(SelectSeq(docs[p].reality \o docs[p].ws, LAMBDA c : c.email = e)) <= 1

\* A document without the clients of one email.
Without(doc, email) ==
    [exists |-> TRUE,
     reality |-> SelectSeq(doc.reality, LAMBDA c : c.email # email),
     ws |-> SelectSeq(doc.ws, LAMBDA c : c.email # email)]

\* C13: a remove_user(email) that returns True has taken every client with that
\* email out of all inbounds of the server's document and left every other
\* client and document as it was; one that returns False has written nothing.
\* It returns True only if a client had that email, and always then when the
\* document could be read and written; xray is reloaded exactly when it returns
\* True.
C13_RemoveUser ==
    [][ last'.op = "remove_user" =>
        LET path == config_path(last'.mgr)
            matched == \E c \in Clients(docs[path]) : c.email = last'.email
        IN  /\ last'.result =>
                docs' = [docs EXCEPT ![path] = Without(docs[path], last'.email)]
            /\ ~last'.result => docs' = docs
            /\ last'.result => matched
            /\ (matched /\ last'.read_ok /\ last'.write_ok) => last'.result
            /\ last'.reloaded <=> last'.result ]_vars

\* A remove_user has returned True and left another client in the document.
C13_Witness ==
    /\ last.op = "remove_user" /\ last.result
    /\ Clients(docs[config_path(last.mgr)]) # {}

\* C14: when two add_user calls for different emails are made on the same
\* server one right after the other (they cannot overlap: add_user has no await
\* between its load and its save) and both return an id, the server's document
\* holds both client records afterwards.
C14_NoLostUpdate ==
    [][ ( /\ last.op = "add_user" /\ ~last.result.error
          /\ last'.op = "add_user" /\ ~last'.result.error
          /\ last'.mgr = last.mgr /\ last'.email # last.email )
        => \A r \in {last, last'} :
              \E c \in Clients(docs'[config_path(r.mgr)]) :
                  c.id = r.result.id /\ c.email = r.email ]_vars

-----------------------------------------------------------------------------
\* The gateway's read-only calls on their own: links are built and traffic is
\* queried while add_user calls change the documents in between.  'shown'
\* keeps the links returned so far, each with the arguments of its call.

MaxLinks == 2

\* XRayManager.generate_vless_link(uuid, email, protocol, server_id).
call_generate_vless_link(server_id, uuid, email, protocol) ==
    /\ Cardinality(shown) < MaxLinks
    /\ LET mgr == get_server_manager(server_id)
       IN  shown' = shown \cup
              { [mgr |-> mgr, uuid |-> uuid, email |-> email,
                 protocol |-> protocol, at |-> next_uuid,
                 link |-> generate_vless_link(mgr, uuid, email, protocol)] }
    /\ UNCHANGED <<now, cfg, users, subs, payments, docs, jobs, user_data,
                   provider, next_uuid, last>>

ReadNext ==
    \/ \E server_id \in ServerIds, email \in Emails :
            call_add_user(server_id, email, "reality", TRUE, TRUE)
    \/ \E server_id \in ServerIds, uuid \in 1 .. MaxClients, email \in Emails,
          protocol \in Protocols :
            call_generate_vless_link(server_id, uuid, email, protocol)

ReadSpec == GwInit /\ [][ReadNext]_vars

IsLink(link) == Len(link) > 1 /\ link[1] = "vless://"
Host(link) == link[4]

\* C16: a WebSocket+TLS link names the server's domain, and without a domain
\* the call returns an error and no link, whether or not the server has an ip;
\* a disguised-TLS (reality) link names the domain when there is one and the ip
\* otherwise.
C16_LinkHost ==
    \A l \in shown :
        LET domain == cfg[l.mgr].domain
            ip == cfg[l.mgr].ip
        IN  /\ (l.protocol = "websocket" /\ domain # "") =>
                  IsLink(l.link) /\ Host(l.link) = domain
            /\ (l.protocol = "websocket" /\ domain = "") => ~IsLink(l.link)
            /\ (l.protocol = "reality" /\ domain # "") =>
                  IsLink(l.link) /\ Host(l.link) = domain
            /\ (l.protocol = "reality" /\ domain = "" /\ ip # "") =>
                  IsLink(l.link) /\ Host(l.link) = ip

\* Both transports were asked for on a server that has an ip and no domain.
C16_Witness ==
    \E a, b \in shown :
        /\ a.mgr = b.mgr /\ cfg[a.mgr].domain = "" /\ cfg[a.mgr].ip # ""
        /\ a.protocol = "websocket" /\ b.protocol = "reality"

-----------------------------------------------------------------------------
\* Traffic queries on their own: get_user_traffic for any server and email and
\* any pair of answers of the gateway's stats interface.

\* XRayManager.get_user_traffic(email, server_id).
call_get_user_traffic(server_id, email, uplink_result, downlink_result) ==
    /\ last' = [op |-> "get_user_traffic", mgr |-> get_server_manager(server_id),
                email |-> email, uplink_result |-> uplink_result,
                downlink_result |-> downlink_result,
                result |-> get_user_traffic(uplink_result, downlink_result)]
    /\ UNCHANGED <<now, cfg, users, subs, payments, docs, jobs, user_data, shown,
                   provider, next_uuid>>

TrafficInit ==
    /\ GwStart
    /\ last = [op |-> "none", mgr |-> 0, email |-> None,
               uplink_result |-> [kind |-> "empty", value |-> 0],
               downlink_result |-> [kind |-> "empty", value |-> 0],
               result |-> ZeroTraffic]

TrafficNext ==
    \E server_id \in ServerIds, email \in Emails :
    \E uplink_result, downlink_result \in Responses :
        call_get_user_traffic(server_id, email, uplink_result, downlink_result)

TrafficSpec == TrafficInit /\ [][TrafficNext]_vars

\* A counter's query failed or its output could not be parsed.
Failed(response) ==
    response.kind \in { "raises", "empty", "not_json", "not_object",
                        "empty_stat", "bad_value" }

-----------------------------------------------------------------------------
\* The ledger on its own: the methods of Database called directly, in any
\* order and with any arguments, while the clock advances.

\* The arguments the calls are made with.
LedgerUsers == {1, 2}
SubscriptionArgs ==
    { [days |-> 0, payment_id |-> None, server_id |-> <<"eu1">>],
      [days |-> 30, payment_id |-> <<"crypto", 0, 1>>, server_id |-> <<"us", "2">>],
      [days |-> 30, payment_id |-> None, server_id |-> None] }
LedgerServers == { <<"eu1">>, <<"us", "2">> }
LedgerPaymentIds == { <<"crypto", 0, 1>>, <<"stars", 0, 2>> }
PaymentArgs ==
    { [user_id |-> 1, amount |-> 5, currency |-> "USDT", status |-> "pending",
       days |-> 30, server_id |-> <<"eu1">>],
      [user_id |-> 2, amount |-> 50, currency |-> "XTR", status |-> Completed,
       days |-> 90, server_id |-> None] }

\* The record of the latest call: op, the arguments that op takes, and the
\* returned value in the field of its type.
Call(op, user_id, server_id, subscription_id, payment_id, args, ok, list) ==
    [op |-> op, user_id |-> user_id, server_id |-> server_id,
     subscription_id |-> subscription_id, payment_id |-> payment_id,
     args |-> args, ok |-> ok, list |-> list]
NoArgs == CHOOSE a \in PaymentArgs : a.user_id = 1

LedgerInit ==
    /\ now = 0
    /\ cfg = <<>>
    /\ users = {}
    /\ subs = <<>>
    /\ payments = <<>>
    /\ docs = [p \in Paths |-> NoFile]
    /\ jobs = <<>>
    /\ user_data = [u \in Users |-> None]
    /\ shown = {}
    /\ provider = <<>>
    /\ next_uuid = 1
    /\ last = Call("none", 0, None, 0, None, NoArgs, FALSE, <<>>)

LedgerFrame == UNCHANGED <<now, cfg, docs, jobs, user_data, shown, provider>>

\* Database.add_user(user_id).
db_add_user(user_id) ==
    /\ users' = users \cup {user_id}
    /\ last' = Call("add_user", user_id, None, 0, None, NoArgs, TRUE, <<>>)
    /\ UNCHANGED <<subs, payments, next_uuid>>
    /\ LedgerFrame

\* Database.add_subscription(user_id, days, payment_id, server_id).
db_add_subscription(user_id, days, payment_id, server_id) ==
    /\ Len(subs) < MaxSubs
    /\ LET subscription == add_subscription(user_id, days, payment_id, server_id)
       IN  /\ subs' = subs \o subscription
           /\ next_uuid' = IF subscription = None THEN next_uuid
                           ELSE next_uuid + 2
           /\ last' = Call("add_subscription", user_id, server_id, 0,
                           payment_id, NoArgs, subscription # None, subscription)
    /\ UNCHANGED <<users, payments>>
    /\ LedgerFrame

\* Database.deactivate_subscription(user_id, subscription_id).
db_deactivate_subscription(user_id, subscription_id) ==
    /\ LET r == deactivate_subscription(user_id, subscription_id)
       IN  /\ subs' = r.subs
           /\ last' = Call("deactivate_subscription", user_id, None,
                           subscription_id, None, NoArgs, r.result, <<>>)
    /\ UNCHANGED <<users, payments, next_uuid>>
    /\ LedgerFrame

\* Database.get_active_subscriptions(user_id, server_id).
db_get_active_subscriptions(user_id, server_id) ==
    /\ last' = Call("get_active_subscriptions", user_id, server_id, 0, None,
                    NoArgs, TRUE, get_active_subscriptions(user_id, server_id))
    /\ UNCHANGED <<users, subs, payments, next_uuid>>
    /\ LedgerFrame

\* Database.record_payment(user_id, payment_id, amount, currency, status,
\* subscription_days, server_id); it returns the record of that id.
db_record_payment(payment_id, args) ==
    /\ payments' = record_payment(payments, args.user_id, payment_id,
                                  args.amount, args.currency, args.status,
                                  args.days, args.server_id)
    /\ last' = Call("record_payment", args.user_id, args.server_id, 0,
                    payment_id, args, TRUE, << payments'[payment_id] >>)
    /\ UNCHANGED <<users, subs, next_uuid>>
    /\ LedgerFrame

\* The longest term, in days from its creation, up to which a subscription is
\* still extended.
MaxDays == 30

\* Database.extend_subscription(user_id, subscription_id, days).
db_extend_subscription(user_id, subscription_id, days) ==
    /\ \A i \in DOMAIN subs :
          (subs[i].user_id = user_id /\ subs[i].id = subscription_id) =>
              subs[i].expires_at <= subs[i].created_at + (MaxDays * DaySeconds)
    /\ LET r == extend_subscription(user_id, subscription_id, days)
       IN  /\ subs' = r.subs
           /\ last' = Call("extend_subscription", user_id, None,
                           subscription_id, None, [NoArgs EXCEPT !.days = days],
                           r.result # None, r.result)
    /\ UNCHANGED <<users, payments, next_uuid>>
    /\ LedgerFrame

LedgerNext ==
    \/ Tick
    \/ \E user_id \in LedgerUsers, subscription_id \in 1 .. 2 :
            db_extend_subscription(user_id, subscription_id, 30)
    \/ \E user_id \in LedgerUsers : db_add_user(user_id)
    \/ \E user_id \in LedgerUsers, a \in SubscriptionArgs :
            db_add_subscription(user_id, a.days, a.payment_id, a.server_id)
    \/ \E user_id \in LedgerUsers, subscription_id \in 1 .. 2 :
            db_deactivate_subscription(user_id, subscription_id)
    \/ \E user_id \in LedgerUsers, server_id \in LedgerServers \cup {None} :
            db_get_active_subscriptions(user_id, server_id)

LedgerSpec == LedgerInit /\ [][LedgerNext]_vars

\* Database.update_payment_status(payment_id, status); it returns the updated
\* record, or None for an id that is not recorded.
db_update_payment_status(payment_id, status) ==
    /\ payments' = update_payment_status(payments, payment_id, status)
    /\ last' = Call("update_payment_status", 0, None, 0, payment_id, NoArgs,
                    payment_id \in DOMAIN payments,
                    IF payment_id \in DOMAIN payments
                    THEN << payments'[payment_id] >> ELSE None)
    /\ UNCHANGED <<users, subs, next_uuid>>
    /\ LedgerFrame

\* The payments of the ledger on their own.
PaymentsNext ==
    \/ Tick
    \/ \E payment_id \in LedgerPaymentIds, status \in {Completed, "failed"} :
            db_update_payment_status(payment_id, status)
    \/ \E payment_id \in LedgerPaymentIds, args \in PaymentArgs :
            db_record_payment(payment_id, args)

PaymentsSpec == LedgerInit /\ [][PaymentsNext]_vars

\* C18: record_payment is idempotent per payment id: for an id already in the
\* ledger it returns the stored record and changes no payment, whatever the
\* arguments; for a new id it inserts exactly one record, made of the
\* arguments, and returns it.
C18_RecordPaymentOnce ==
    [][ last'.op = "record_payment" =>
        LET p == last'.payment_id
            a == last'.args
        IN  /\ p \in DOMAIN payments =>
                  /\ payments' = payments
                  /\ last'.list = << payments[p] >>
            /\ p \notin DOMAIN payments =>
                  /\ DOMAIN payments' = DOMAIN payments \cup {p}
                  /\ \A q \in DOMAIN payments : payments'[q] = payments[q]
                  /\ payments'[p] =
                        [id |-> p, user_id |-> a.user_id, amount |-> a.amount,
                         currency |-> a.currency, status |-> a.status,
                         server_id |-> a.server_id, created_at |-> now,
                         updated_at |-> now, subscription_days |-> a.days]
                  /\ last'.list = << payments'[p] >> ]_vars

\* record_payment was called, at a later time and with other arguments, for an
\* id that was already recorded.
C18_Witness ==
    /\ last.op = "record_payment"
    /\ last.list[1].amount # last.args.amount
    /\ last.list[1].created_at < now

\* C19: add_subscription for a user id that is not in the ledger returns None
\* and leaves the ledger as it was; for a known user it appends exactly one
\* subscription, of that user, and no other user's subscriptions change.
C19_AddSubscription ==
    [][ (last'.op = "add_subscription" /\ now' = now) =>
        LET u == last'.user_id
            of(list, v) == SelectSeq(list, LAMBDA x : x.user_id = v)
        IN  /\ u \notin users =>
                  /\ last'.list = None
                  /\ UNCHANGED <<users, subs, payments>>
            /\ u \in users =>
                  /\ Len(last'.list) = 1
                  /\ last'.list[1].user_id = u
                  /\ of(subs', u) = Append(of(subs, u), last'.list[1])
                  /\ \A v \in LedgerUsers \ {u} : of(subs', v) = of(subs, v)
                  /\ UNCHANGED <<users, payments>> ]_vars

\* A subscription was added for one user while another user had one.
C19_Witness ==
    /\ last.op = "add_subscription" /\ last.ok
    /\ \E i \in DOMAIN subs : subs[i].user_id # last.user_id

\* C20: get_active_subscriptions(user, server_id) returns exactly the user's
\* subscriptions that have is_active set and expire after now and, when a
\* server id is given, are on that server; a deactivated or expired
\* subscription is never in the list.
C20_ActiveSubscriptions ==
    [][ (last'.op = "get_active_subscriptions" /\ now' = now) =>
        LET wanted(x) ==
                /\ x.user_id = last'.user_id
                /\ x.is_active /\ x.expires_at > now
                /\ (last'.server_id # None => x.server_id = last'.server_id)
        IN  /\ last'.list = SelectSeq(subs, wanted)
            /\ \A x \in Range(last'.list) : x.is_active /\ x.expires_at > now
        ]_vars

\* A query with a server id returned one subscription of a user who also has
\* a deactivated or expired one.
C20_Witness ==
    /\ last.op = "get_active_subscriptions"
    /\ last.server_id # None
    /\ Len(last.list) = 1
    /\ \E x \in Range(subs) :
          /\ x.user_id = last.user_id
          /\ (~x.is_active \/ x.expires_at <= now)

\* C21: extend_subscription(user, subscription, days) sets expires_at to now +
\* days * 86400 when the subscription has expired (expires_at <= now) and to the
\* old expires_at + days * 86400 when it has not, and changes no other
\* subscription; for an unknown user or subscription id it returns None and
\* leaves the ledger as it was.
C21_ExtendSubscription ==
    [][ (last'.op = "extend_subscription" /\ now' = now) =>
        LET found == { i \in DOMAIN subs :
                          /\ subs[i].user_id = last'.user_id
                          /\ subs[i].id = last'.subscription_id }
            added == last'.args.days * DaySeconds
        IN  /\ (last'.user_id \notin users \/ found = {}) =>
                  /\ last'.list = None
                  /\ UNCHANGED <<users, subs, payments>>
            /\ (last'.user_id \in users /\ found # {}) =>
                  /\ Len(last'.list) = 1
                  /\ DOMAIN subs' = DOMAIN subs
                  /\ \A i \in DOMAIN subs :
                        IF i \in found
                        THEN /\ subs'[i].expires_at =
                                   IF subs[i].expires_at <= now
                                   THEN now + added
                                   ELSE subs[i].expires_at + added
                             /\ last'.list[1] = subs'[i]
                        ELSE subs'[i] = subs[i]
                  /\ UNCHANGED <<users, payments>> ]_vars

\* A subscription that had expired before now was extended.
C21_Witness ==
    /\ last.op = "extend_subscription" /\ last.ok
    /\ last.list[1].created_at < now
    /\ last.list[1].expires_at = now + (last.args.days * DaySeconds)

-----------------------------------------------------------------------------
\* The bot over a span in which a trial runs out.

\* The days of a trial pass: every subscription given so far has expired.
trial_runs_out ==
    /\ now <= MaxNow
    /\ now' = now + (TrialDays * DaySeconds) + 1
    /\ UNCHANGED <<cfg, users, subs, payments, docs, jobs, user_data, shown,
                   provider, next_uuid, last>>

LongNext ==
    \/ Next
    \/ trial_runs_out

LongSpec == Init /\ [][LongNext]_vars

\* The trial subscriptions a user holds, and the trial clients the gateway
\* documents hold for the user.
TrialSubs(ledger, u) ==
    { i \in DOMAIN ledger : ledger[i].user_id = u /\ ledger[i].is_trial }

TrialClients(d, u) ==
    LET held(clients) == { i \in DOMAIN clients :
                              /\ clients[i].email[1] = "trial"
                              /\ clients[i].email[3] = u }
    IN  UNION { ({<<p, "reality">>} \X held(d[p].reality))
                    \cup ({<<p, "ws">>} \X held(d[p].ws)) : p \in DOMAIN d }

\* C22: activate_trial for a user who already holds a trial subscription is
\* refused: while a user holds a trial subscription, running or run out, no
\* step marks a trial for the user, creates a subscription marked as a trial,
\* or adds a trial client to a gateway document; and no step of the trial's
\* path contacts a payment provider.
C22_TrialOnce ==
    [][ \A u \in Users :
            /\ TrialSubs(subs, u) # {} =>
                  /\ (user_data'[u].is_trial => user_data[u].is_trial)
                  /\ TrialSubs(subs', u) = TrialSubs(subs, u)
                  /\ TrialClients(docs', u) \subseteq TrialClients(docs, u)
            /\ (\/ user_data'[u].is_trial # user_data[u].is_trial
                \/ TrialSubs(subs', u) # TrialSubs(subs, u)) =>
                  provider' = provider ]_vars

\* A user's trial has run out and nothing else is active: only the earlier
\* trial stands between the user and a new one.
C22_Witness ==
    \E u \in Users :
        /\ TrialSubs(subs, u) # {}
        /\ Len(get_active_subscriptions(u, None)) = 0
        /\ \E data \in shown : data[1] = "server"
        /\ ~user_data[u].is_trial

-----------------------------------------------------------------------------
\* The bot together with direct calls of Database.deactivate_subscription,
\* which bot.py itself never calls.

\* Database.deactivate_subscription(user_id, subscription_id), for an id the
\* ledger holds.
call_deactivate_subscription(user_id, subscription_id) ==
    /\ LET r == deactivate_subscription(user_id, subscription_id)
       IN  /\ subs' = r.subs
           /\ last' = [op |-> "deactivate_subscription", target |-> None,
                       answer |-> "none",
                       result |-> IF r.result THEN "true" ELSE "false"]
    /\ UNCHANGED <<now, cfg, users, payments, docs, jobs, user_data, shown,
                   provider, next_uuid>>

RetireNext ==
    \/ Next
    \/ \E i \in DOMAIN subs :
            call_deactivate_subscription(subs[i].user_id, subs[i].id)

RetireSpec == Init /\ [][RetireNext]_vars

\* The label of a subscription's gateway client.
Label(sub) ==
    IF sub.is_trial THEN TrialEmail(sub.user_id, sub.id)
    ELSE PaidEmail(sub.user_id, sub.id)

\* C23: when a subscription is deactivated, its identity is removed from the
\* gateway: after deactivate_subscription has returned True, the document of
\* the subscription's server holds no client with the subscription's label.
C23_DeactivationRemovesIdentity ==
    [][ (last'.op = "deactivate_subscription" /\ last'.result = "true") =>
        \A i \in DOMAIN subs :
            (subs[i].is_active /\ ~subs'[i].is_active) =>
                \A c \in Clients(docs'[config_path(
                             get_server_manager(subs[i].server_id))]) :
                    c.email # Label(subs[i]) ]_vars

-----------------------------------------------------------------------------
\* Gateway calls that name a server the registry does not hold.

\* Ids that no registry of GwConfigs holds; "us" is what split('_')[1] makes
\* of the server button of us_2.
UnknownServerIds == { <<"us">>, <<"de1">> }

StrayNext ==
    \/ \E server_id \in UnknownServerIds, email \in Emails,
          protocol \in Protocols, read_ok, write_ok \in BOOLEAN :
            call_add_user(server_id, email, protocol, read_ok, write_ok)
    \/ \E server_id \in UnknownServerIds, email \in Emails,
          read_ok \in BOOLEAN :
            call_get_user(server_id, email, read_ok)
    \/ \E server_id \in UnknownServerIds, email \in Emails,
          read_ok, write_ok \in BOOLEAN :
            call_remove_user(server_id, email, read_ok, write_ok)

StraySpec == GwInit /\ [][StrayNext]_vars

\* C24: a provisioning or query operation given a server id that is not in
\* the registry resolves to not-found and does not read or modify any other
\* server's document: add_user returns an error, get_user returns None,
\* remove_user returns False, and every document stays as it was.
C24_UnknownServerNotFound ==
    [][ /\ docs' = docs
        /\ last'.op = "add_user" => last'.result.error
        /\ last'.op = "get_user" => last'.result = None
        /\ last'.op = "remove_user" => last'.result = FALSE ]_vars

-----------------------------------------------------------------------------
\* utils/payments.py: PaymentManager and its providers, called directly.  Here
\* cfg is the payments part of the configuration, provider holds the invoices
\* of the Crypto Pay API, and last is the latest call: its (ok, data) or
\* (is_paid, status) and the HTTP requests it sent.

MaxInvoices == 2

Tokens(name) == { None, <<name>> }

PayConfigs ==
    [ payments_enabled : BOOLEAN,
      crypto_bot_token : Tokens("crypto-token"),
      yoomoney_token : Tokens("yoomoney-token") ]

\* The names a call may address: the four providers and one that is none.
ProviderNames == {"cryptobot", "yoomoney", "telegram_stars", "usdt", "paypal"}

get_crypto_bot_token == cfg.crypto_bot_token

\* config.get_yoomoney_token, which payments.py calls and utils/config.py does
\* not define: the configured YooMoney token, or None.
get_yoomoney_token == cfg.yoomoney_token

\* _init_providers as it would be if it registered USDT without asking for the
\* CryptoBot token.
_init_providers_usdt_always ==
    IF ~cfg.payments_enabled THEN {}
    ELSE (IF Truthy(get_crypto_bot_token) THEN {"cryptobot"} ELSE {})
         \cup (IF Truthy(get_yoomoney_token) THEN {"yoomoney"} ELSE {})
         \cup {"telegram_stars"}
         \cup {"usdt"}

\* PaymentManager._init_providers: the keys of self.providers.
_init_providers ==
    IF ~cfg.payments_enabled THEN {}
    ELSE (IF Truthy(get_crypto_bot_token) THEN {"cryptobot"} ELSE {})
         \cup (IF Truthy(get_yoomoney_token) THEN {"yoomoney"} ELSE {})
         \cup {"telegram_stars"}
         \cup (IF Truthy(get_crypto_bot_token) THEN {"usdt"} ELSE {})

\* PaymentManager.get_provider.
get_provider(name) == IF name \in _init_providers THEN <<name>> ELSE None

\* The token a provider object holds.
ProviderToken(name) ==
    IF name \in {"cryptobot", "usdt"} THEN get_crypto_bot_token
    ELSE IF name = "yoomoney" THEN get_yoomoney_token
    ELSE None

\* create_invoice of CryptoBot, YooMoney, TelegramStars and USDTPayment: CryptoBot
\* and USDT post createInvoice to the API, which answers with a new invoice or
\* fails; YooMoney and TelegramStars make a payment id of their own.
Provider_create_invoice(name, api_ok) ==
    IF name \in {"cryptobot", "usdt"}
    THEN IF ~Truthy(ProviderToken(name))
         THEN [ok |-> FALSE, data |-> <<"error", "not configured">>,
               requests |-> <<>>, provider |-> provider, uuid |-> next_uuid]
         ELSE IF api_ok
         THEN [ok |-> TRUE, data |-> <<name, next_uuid>>,
               requests |-> <<"createInvoice">>,
               provider |-> provider @@ (next_uuid :> "active"),
               uuid |-> next_uuid + 1]
         ELSE [ok |-> FALSE, data |-> <<"error", "Payment API error">>,
               requests |-> <<"createInvoice">>, provider |-> provider,
               uuid |-> next_uuid]
    ELSE IF name = "yoomoney" /\ ~Truthy(ProviderToken(name))
    THEN [ok |-> FALSE, data |-> <<"error", "not configured">>,
          requests |-> <<>>, provider |-> provider, uuid |-> next_uuid]
    ELSE [ok |-> TRUE, data |-> <<name, next_uuid>>, requests |-> <<>>,
          provider |-> provider, uuid |-> next_uuid + 1]

\* PaymentManager.create_invoice.
create_invoice(name, api_ok) ==
    IF ~cfg.payments_enabled
    THEN [ok |-> FALSE, data |-> <<"error", "Payments are disabled">>,
          requests |-> <<>>, provider |-> provider, uuid |-> next_uuid]
    ELSE IF get_provider(name) = None
    THEN [ok |-> FALSE, data |-> <<"error", "Provider not available">>,
          requests |-> <<>>, provider |-> provider, uuid |-> next_uuid]
    ELSE Provider_create_invoice(name, api_ok)

\* check_payment of the four providers: CryptoBot and USDT ask getInvoice.
Provider_check_payment(name, answer) ==
    IF name \in {"cryptobot", "usdt"}
    THEN IF ~Truthy(ProviderToken(name))
         THEN [ok |-> FALSE, data |-> <<"not_configured">>, requests |-> <<>>]
         ELSE [ok |-> CryptoBot_check_payment(answer)[1],
               data |-> <<CryptoBot_check_payment(answer)[2]>>,
               requests |-> <<"getInvoice">>]
    ELSE IF name = "yoomoney" /\ ~Truthy(ProviderToken(name))
    THEN [ok |-> FALSE, data |-> <<"not_configured">>, requests |-> <<>>]
    ELSE [ok |-> FALSE, data |-> <<"pending">>, requests |-> <<>>]

\* PaymentManager.check_payment.
check_payment(name, answer) ==
    IF ~cfg.payments_enabled
    THEN [ok |-> FALSE, data |-> <<"disabled">>, requests |-> <<>>]
    ELSE IF get_provider(name) = None
    THEN [ok |-> FALSE, data |-> <<"provider_not_available">>,
          requests |-> <<>>]
    ELSE Provider_check_payment(name, answer)

PayInit ==
    /\ now = 0
    /\ cfg \in PayConfigs
    /\ users = {}
    /\ subs = <<>>
    /\ payments = <<>>
    /\ docs = [p \in Paths |-> NoFile]
    /\ jobs = <<>>
    /\ user_data = [u \in Users |-> None]
    /\ shown = {}
    /\ provider = <<>>
    /\ next_uuid = 1
    /\ last = [op |-> "none", provider |-> "", ok |-> FALSE, data |-> <<>>,
               requests |-> <<>>]

PayFrame == UNCHANGED <<now, cfg, users, subs, payments, docs, jobs, user_data,
                        shown>>

call_create_invoice(name, api_ok) ==
    /\ next_uuid <= MaxInvoices
    /\ LET r == create_invoice(name, api_ok)
       IN  /\ provider' = r.provider
           /\ next_uuid' = r.uuid
           /\ last' = [op |-> "create_invoice", provider |-> name,
                       ok |-> r.ok, data |-> r.data, requests |-> r.requests]
    /\ PayFrame

call_check_payment(name, payment_id, answer) ==
    /\ answer \in ProviderAnswers(payment_id)
    /\ LET r == check_payment(name, answer)
       IN  last' = [op |-> "check_payment", provider |-> name, ok |-> r.ok,
                    data |-> r.data, requests |-> r.requests]
    /\ UNCHANGED <<provider, next_uuid>>
    /\ PayFrame

\* The provider sees an invoice paid, or lets it expire.
invoice_settled(payment_id, status) ==
    /\ payment_id \in DOMAIN provider
    /\ provider[payment_id] = "active"
    /\ provider' = [provider EXCEPT ![payment_id] = status]
    /\ UNCHANGED <<next_uuid, last>>
    /\ PayFrame

PayNext ==
    \/ \E name \in ProviderNames, api_ok \in BOOLEAN :
            call_create_invoice(name, api_ok)
    \/ \E name \in ProviderNames, payment_id \in 1..MaxInvoices,
          answer \in {"active", "paid", "expired", "error"} :
            call_check_payment(name, payment_id, answer)
    \/ \E payment_id \in 1..MaxInvoices, status \in {"paid", "expired"} :
            invoice_settled(payment_id, status)

PaySpec == PayInit /\ [][PayNext]_vars

-----------------------------------------------------------------------------
\* A payment id the ledger does not hold, or whose payment is completed.
Settled(payment_id) ==
    LET payment == get_payment(payment_id)
    IN  payment = None \/ payment[1].status = Completed

\* C26: a check, manual or by the timer, for a payment id that is absent from
\* the ledger or whose payment is already terminal stops without calling the
\* provider and without changing the ledger or any gateway document, and on
\* the timer path the job is removed: no idle job of such a payment comes to
\* wait for the provider's answer, the run that stops removes that job and
\* changes nothing else, and a manual check of such a payment asks no answer
\* and changes nothing.
C26_SettledCheckStops ==
    [][ /\ \A i \in DOMAIN jobs :
              (jobs[i].pc = "idle" /\ Settled(jobs[i].payment_id)) =>
                  jobs' # [jobs EXCEPT ![i].pc = "awaiting"]
        /\ (last'.op = "job" /\ last'.result = "stopped"
                /\ Len(jobs') < Len(jobs)) =>
              /\ Settled(last'.target)
              /\ \E i \in DOMAIN jobs :
                    /\ jobs[i].payment_id = last'.target
                    /\ jobs' = RemoveAt(jobs, i)
              /\ UNCHANGED <<users, subs, payments, docs, provider>>
        /\ (last'.op = "manual" /\ last' # last /\ Settled(last'.target)) =>
              /\ last'.answer = "none"
              /\ last'.result \in {"not_found", "already_processed"}
              /\ UNCHANGED <<users, subs, payments, docs, provider, jobs>>
      ]_vars

\* The timer's check found its payment completed and stopped.
C26_Witness ==
    /\ last.op = "job"
    /\ last.result = "stopped"
    /\ get_payment(last.target) # None
    /\ get_payment(last.target)[1].status = Completed

\* The answers of the provider that neither confirm a payment nor end it:
\* the invoice is still open, or the request failed.
Undecided == {"active", "error"}

\* C27: when the provider's answer for a pending payment is neither paid nor
\* expired, the check leaves the payment's status, all subscriptions and all
\* gateway documents unchanged, and the payment's recurring job stays in the
\* queue to run again.
C27_UndecidedAnswerKeepsState ==
    [][ /\ \A i \in DOMAIN jobs :
              ( /\ jobs[i].pc = "awaiting"
                /\ last'.op = "job"
                /\ last'.target = jobs[i].payment_id
                /\ last'.answer \in Undecided
                /\ \/ jobs' = RemoveAt(jobs, i)
                   \/ jobs' = [jobs EXCEPT ![i].pc = "idle"] ) =>
                  /\ jobs' = [jobs EXCEPT ![i].pc = "idle"]
                  /\ UNCHANGED <<payments, subs, docs>>
        /\ (last'.op = "manual" /\ last' # last
                /\ last'.answer \in Undecided) =>
              UNCHANGED <<payments, subs, docs, jobs>>
      ]_vars

\* The timer's check of a pending payment got an undecided answer, and the job
\* waits for its next run.
C27_Witness ==
    /\ last.op = "job"
    /\ last.answer \in Undecided
    /\ last.result = "unconfirmed"
    /\ get_payment(last.target) # None
    /\ get_payment(last.target)[1].status = "pending"
    /\ \E i \in DOMAIN jobs :
            jobs[i].payment_id = last.target /\ jobs[i].pc = "idle"

-----------------------------------------------------------------------------
\* utils/database.py: the ledger and its file.  Here docs holds the file at
\* _db_path: the pieces of JSON text on disk and whether _save_data has it
\* open for writing.  last holds the latest mutating call with the ledger
\* before and after it.

DbPath == "data/users.db"

MaxPieces == 6

\* The uuid4 values drawn at most, less one.
MaxUuid == 5

\* self._data as one value: the users, each user's subscriptions, the payments.
Data(us, ss, ps) ==
    [users |-> us,
     subscriptions |-> [u \in us |-> SelectSeq(ss, LAMBDA sub : sub.user_id = u)],
     payments |-> ps]

EmptyData == Data({}, <<>>, <<>>)

Piece(kind, value) == [kind |-> kind, value |-> value]

RECURSIVE UserPieces(_, _)
UserPieces(data, rest) ==
    IF rest = {} THEN <<>>
    ELSE LET u == CHOOSE x \in rest : \A y \in rest : x <= y
             mine == data.subscriptions[u]
         IN  (<<Piece("user", u)>>
                \o [i \in DOMAIN mine |-> Piece("subscription", mine[i])])
             \o UserPieces(data, rest \ {u})

RECURSIVE PaymentPieces(_, _)
PaymentPieces(data, rest) ==
    IF rest = {} THEN <<>>
    ELSE LET q == CHOOSE x \in rest : TRUE
         IN  <<Piece("payment", data.payments[q])>>
             \o PaymentPieces(data, rest \ {q})

\* json.dump(self._data, f): the text, piece by piece, from the opening brace
\* to the closing one.
json_dump(data) ==
    ((<<Piece("{", None)>> \o UserPieces(data, data.users))
        \o PaymentPieces(data, DOMAIN data.payments))
    \o <<Piece("}", None)>>

\* json.load(f): the value of a text that runs from its opening brace to its
\* closing one, and an exception for every other text.
json_load(text) ==
    IF /\ Len(text) >= 2
       /\ text[1].kind = "{"
       /\ text[Len(text)].kind = "}"
    THEN LET kinds(k) == SelectSeq(text, LAMBDA piece : piece.kind = k)
             us == { piece.value : piece \in Range(kinds("user")) }
             ss == kinds("subscription")
             ps == { piece.value : piece \in Range(kinds("payment")) }
         IN  [raised |-> FALSE,
              data |-> [users |-> us,
                        subscriptions |->
                            [u \in us |->
                                LET mine == SelectSeq(ss,
                                        LAMBDA piece : piece.value.user_id = u)
                                IN  [i \in DOMAIN mine |-> mine[i].value]],
                        payments |->
                            [q \in { pay.id : pay \in ps } |->
                                CHOOSE pay \in ps : pay.id = q]]]
    ELSE [raised |-> TRUE, data |-> EmptyData]

\* Database._load_data for a file that exists: the loaded value, or the
\* default empty database that __new__ set when json.load raises.
_load_data(file) ==
    IF json_load(file.text).raised THEN EmptyData
    ELSE json_load(file.text).data

\* The subscriptions of a loaded value as one sequence, user by user.
RECURSIVE AllSubscriptions(_, _)
AllSubscriptions(data, rest) ==
    IF rest = {} THEN <<>>
    ELSE LET u == CHOOSE x \in rest : \A y \in rest : x <= y
         IN  data.subscriptions[u] \o AllSubscriptions(data, rest \ {u})

PersistInit ==
    /\ now = 0
    /\ cfg = <<>>
    /\ users = {}
    /\ subs = <<>>
    /\ payments = <<>>
    /\ docs = (DbPath :> [exists |-> TRUE, open |-> FALSE,
                          text |-> json_dump(EmptyData)])
    /\ jobs = <<>>
    /\ user_data = [u \in Users |-> None]
    /\ shown = {}
    /\ provider = <<>>
    /\ next_uuid = 1
    /\ last = [op |-> "none", before |-> EmptyData, after |-> EmptyData]

PersistFrame == UNCHANGED <<now, cfg, jobs, user_data, shown, provider>>

\* A mutating call up to the open() of _save_data: self._data is changed and
\* open(self._db_path, 'w') has truncated the file.
Mutation(op, us, ss, ps, uuid) ==
    /\ ~docs[DbPath].open
    /\ Len(json_dump(Data(us, ss, ps))) <= MaxPieces
    /\ uuid <= MaxUuid
    /\ users' = us
    /\ subs' = ss
    /\ payments' = ps
    /\ next_uuid' = uuid
    /\ docs' = [docs EXCEPT ![DbPath] =
                    [exists |-> TRUE, open |-> TRUE, text |-> <<>>]]
    /\ last' = [op |-> op, before |-> Data(users, subs, payments),
                after |-> Data(us, ss, ps)]
    /\ PersistFrame

\* Database.add_user, up to the open() of its _save_data.
saving_add_user(user_id) ==
    /\ user_id \in LedgerUsers
    /\ Mutation("add_user", users \cup {user_id}, subs, payments, next_uuid)

\* Database.add_subscription, up to the open() of its _save_data; for an
\* unknown user it returns before it.
saving_add_subscription(user_id, days, payment_id, server_id) ==
    /\ add_subscription(user_id, days, payment_id, server_id) # None
    /\ Mutation("add_subscription", users,
                subs \o add_subscription(user_id, days, payment_id, server_id),
                payments, next_uuid + 2)

\* Database.record_payment, up to the open() of its _save_data; for a
\* recorded id it returns before it.
saving_record_payment(payment_id, args) ==
    /\ payment_id \notin DOMAIN payments
    /\ Mutation("record_payment", users, subs,
                record_payment(payments, args.user_id, payment_id,
                               args.amount, args.currency, args.status,
                               args.days, args.server_id),
                next_uuid)

\* json.dump inside _save_data: the next piece of the text reaches the file;
\* after the last one the with block closes it.
write_piece ==
    /\ docs[DbPath].open
    /\ LET text == json_dump(Data(users, subs, payments))
           k == Len(docs[DbPath].text) + 1
       IN  docs' = [docs EXCEPT ![DbPath].text = Append(@, text[k]),
                                ![DbPath].open = k < Len(text)]
    /\ UNCHANGED <<users, subs, payments, next_uuid, last>>
    /\ PersistFrame

\* The process stops where it is and is started again: Database.__new__ sets
\* the default empty database and _load_data reads the file.
restart ==
    /\ LET data == _load_data(docs[DbPath])
       IN  /\ users' = data.users
           /\ subs' = AllSubscriptions(data, data.users)
           /\ payments' = data.payments
    /\ docs' = [docs EXCEPT ![DbPath].open = FALSE]
    /\ last' = [last EXCEPT !.op = "restart"]
    /\ UNCHANGED next_uuid
    /\ PersistFrame

PersistNext ==
    \/ \E user_id \in LedgerUsers : saving_add_user(user_id)
    \/ \E user_id \in LedgerUsers :
            saving_add_subscription(user_id, 30, None, <<"eu1">>)
    \/ \E args \in PaymentArgs :
            saving_record_payment(<<"crypto", 0, 1>>, args)
    \/ write_piece
    \/ restart

PersistSpec == PersistInit /\ [][PersistNext]_vars

\* C28: every mutating ledger operation is atomic with respect to the
\* persisted file: when the process stops at any point during a write, the
\* load that follows observes either the complete ledger before the
\* operation or the complete ledger after it.
C28_AtomicSave ==
    [][ (last'.op = "restart" /\ last.op # "restart") =>
            Data(users', subs', payments') \in {last.before, last.after} ]_vars

-----------------------------------------------------------------------------
\* The query parts of a link, in their order, and its fragment.
Query(link) ==
    [ k \in 1 .. ((Len(link) - 8) \div 2) |-> link[6 + (2 * k)] ]

Fragment(link) == link[Len(link)]

\* C30: a disguised-TLS (reality) link carries the query parameters security,
\* encryption, flow, type, sni, fp, pbk, sid in that order, with the first
\* configured SNI, the public key and the short id, and its fragment equals
\* the label; a WebSocket+TLS link carries security, encryption, type, path,
\* host, sni in that order, with host and sni equal to the domain, and its
\* fragment equals the label.
C30_LinkFormat ==
    \A l \in shown :
        IsLink(l.link) =>
            /\ Fragment(l.link) = l.email
            /\ l.protocol = "reality" =>
                  Query(l.link) =
                      << "security=reality", "encryption=none",
                         "flow=xtls-rprx-vision", "type=tcp",
                         "sni=" \o cfg[l.mgr].sni, "fp=chrome",
                         "pbk=" \o cfg[l.mgr].public_key,
                         "sid=" \o cfg[l.mgr].short_id >>
            /\ l.protocol = "websocket" =>
                  Query(l.link) =
                      << "security=tls", "encryption=none", "type=ws",
                         "path=/ws", "host=" \o cfg[l.mgr].domain,
                         "sni=" \o cfg[l.mgr].domain >>

-----------------------------------------------------------------------------
\* utils/xray.py: the Reality keys of one server.  Here cfg is one server whose
\* record also holds its reality settings' private key, the setting
\* auto_generate_keys, and whether its ServerXRayManager has been constructed.

Placeholder == "your_private_key_here"

KeyConfigs ==
    { << [ Server(<<"eu1">>, DefaultPath, "eu1.example.org", "203.0.113.1")
             EXCEPT !.public_key = public_key, !.short_id = short_id ]
         @@ [private_key |-> private_key,
             auto_generate_keys |-> auto, constructed |-> FALSE] >> :
        private_key \in {"", Placeholder, "configured-private-key"},
        public_key \in {"", "configured-public-key"},
        short_id \in {"", "configured-sid"},
        auto \in BOOLEAN }

\* What 'xray x25519' can give: subprocess.run raises (None), or the lines of
\* its stdout, each split at its colons.
KeyOutputs ==
    { None,
      << <<"">> >>,
      << <<"Private key", "new-private-key">> >>,
      << <<"Private key", "new-private-key">>, <<"Public key">> >>,
      << <<"Private key", "">>, <<"Public key", "new-public-key">> >>,
      << <<"Private key", "new-private-key">>,
         <<"Public key", "new-public-key">> >> }

\* ServerXRayManager.generate_keys: (private_key, public_key), and ("", "")
\* for every exception.
generate_keys(output) ==
    IF output = None \/ Len(output) < 2 THEN <<"", "">>
    ELSE IF Len(output[1]) < 2 \/ Len(output[2]) < 2 THEN <<"", "">>
    ELSE << output[1][2], output[2][2] >>

\* ServerXRayManager._init_reality_keys: the server's settings afterwards.
\* short_id is os.urandom(4).hex().
_init_reality_keys(server, output) ==
    LET private_key == server.private_key
        keys == generate_keys(output)
    IN  IF private_key = "" \/ private_key = Placeholder
        THEN IF keys[1] # "" /\ keys[2] # ""
             THEN [server EXCEPT !.private_key = keys[1],
                                 !.public_key = keys[2],
                                 !.short_id = "new-sid"]
             ELSE server
        ELSE server

KeyInit ==
    /\ now = 0
    /\ cfg \in KeyConfigs
    /\ users = {}
    /\ subs = <<>>
    /\ payments = <<>>
    /\ docs = [p \in Paths |-> NoFile]
    /\ jobs = <<>>
    /\ user_data = [u \in Users |-> None]
    /\ shown = {}
    /\ provider = <<>>
    /\ next_uuid = 1
    /\ last = [op |-> "none", keys |-> <<"", "">>]

\* ServerXRayManager.__init__ from its test of auto_generate_keys on.
construct_manager(output) ==
    /\ ~cfg[1].constructed
    /\ cfg' = [cfg EXCEPT ![1] =
                 [ (IF cfg[1].auto_generate_keys
                    THEN _init_reality_keys(cfg[1], output) ELSE cfg[1])
                   EXCEPT !.constructed = TRUE ]]
    /\ last' = [op |-> "__init__", keys |-> generate_keys(output)]
    /\ UNCHANGED <<now, users, subs, payments, docs, jobs, user_data, shown,
                   provider, next_uuid>>

\* Provisioning and links on the constructed manager.
keyed_add_user(email, read_ok, write_ok) ==
    /\ cfg[1].constructed
    /\ call_add_user(cfg[1].id, email, "reality", read_ok, write_ok)

keyed_generate_vless_link(uuid, email, protocol) ==
    /\ cfg[1].constructed
    /\ call_generate_vless_link(cfg[1].id, uuid, email, protocol)

KeyNext ==
    \/ \E output \in KeyOutputs : construct_manager(output)
    \/ \E email \in Emails, read_ok, write_ok \in BOOLEAN :
            keyed_add_user(email, read_ok, write_ok)
    \/ \E uuid \in 1 .. MaxClients, email \in Emails, protocol \in Protocols :
            keyed_generate_vless_link(uuid, email, protocol)

KeySpec == KeyInit /\ [][KeyNext]_vars

KeyMaterial(server) ==
    << server.private_key, server.public_key, server.short_id >>

\* C29: _init_reality_keys generates keys only when the private key is absent
\* or the placeholder, and then sets private key, public key and short id
\* together; when generation fails the server's key fields are empty, and
\* later provisioning and links still succeed, with blank keys; a server with
\* a real private key keeps its key material unchanged.
C29_KeyMaterial ==
    [][ /\ (last'.op = "__init__" /\ ~cfg[1].constructed) =>
              LET missing == cfg[1].private_key \in {"", Placeholder}
                  failed == last'.keys[1] = "" \/ last'.keys[2] = ""
              IN  /\ ~missing => KeyMaterial(cfg'[1]) = KeyMaterial(cfg[1])
                  /\ KeyMaterial(cfg'[1]) # KeyMaterial(cfg[1]) =>
                        /\ missing
                        /\ cfg'[1].private_key = last'.keys[1]
                        /\ cfg'[1].public_key = last'.keys[2]
                        /\ cfg'[1].short_id \notin {"", cfg[1].short_id}
                  /\ (missing /\ cfg[1].auto_generate_keys /\ failed) =>
                        KeyMaterial(cfg'[1]) = <<"", "", "">>
        /\ \A l \in shown' \ shown :
              /\ IsLink(l.link)
              /\ l.protocol = "reality" =>
                    /\ Query(l.link)[7] = "pbk=" \o cfg[1].public_key
                    /\ Query(l.link)[8] = "sid=" \o cfg[1].short_id
        /\ (last'.op = "add_user" /\ last' # last
                /\ last'.read_ok /\ last'.write_ok) => ~last'.result.error
      ]_vars

-----------------------------------------------------------------------------
\* The bot with the two users of LedgerUsers, either of whom may press any
\* button shown, with every read and write of a gateway document succeeding.

PairInit ==
    /\ now = 0
    /\ cfg \in Configs
    /\ users = {}
    /\ subs = <<>>
    /\ payments = <<>>
    /\ docs = [p \in Paths |-> NoFile]
    /\ jobs = <<>>
    /\ user_data = [u \in LedgerUsers |->
            [selected_plan |-> None, selected_server_id |-> None,
             is_trial |-> FALSE, payment_job |-> None]]
    /\ shown = {}
    /\ provider = <<>>
    /\ next_uuid = 1
    /\ last = [op |-> "none", target |-> None, answer |-> "none",
               result |-> "none"]

PairNext ==
    \/ \E p \in DOMAIN provider : provider_paid(p)
    \/ \E u \in LedgerUsers : start_command(u)
    \/ \E u \in LedgerUsers, days \in PlanDays : select_plan(u, days)
    \/ \E u \in LedgerUsers, data \in shown :
            process_server_selection(u, data, TRUE, TRUE)
    \/ \E u \in LedgerUsers, data \in shown : process_payment(u, data, TRUE)
    \/ \E i \in DOMAIN jobs : check_payment_job_begin(i)
    \/ \E i \in DOMAIN jobs, answer \in {"active", "paid", "error"} :
            check_payment_job_end(i, answer, TRUE, TRUE)
    \/ \E u \in LedgerUsers, data \in shown,
          answer \in {"active", "paid", "error"} :
            check_payment_manually(u, data, answer, TRUE, TRUE)

PairSpec == PairInit /\ [][PairNext]_vars

\* C31: a subscription created from payment P is always added to the user who
\* owns P, whichever user or path caused the check: every subscription that
\* names a payment belongs to that payment's user_id.
C31_SubscriptionGoesToOwner ==
    \A i \in DOMAIN subs :
        subs[i].payment_id # None =>
            /\ subs[i].payment_id \in DOMAIN payments
            /\ subs[i].user_id = payments[subs[i].payment_id].user_id

\* Both users are known, a manual check was made, and the payment was
\* completed into a subscription.
C31_Witness ==
    /\ users = LedgerUsers
    /\ last.op = "manual"
    /\ \E i \in DOMAIN subs : subs[i].payment_id # None

\* C32: a manual check that completes payment P cancels the recurring task of P
\* and of no other payment: after a manual check of a pending payment P that
\* the provider reports paid, no task of P remains scheduled and the tasks of
\* every other payment are as they were.
C32_ManualCheckCancelsOwnTask ==
    [][ (/\ last' # last
         /\ last'.op = "manual"
         /\ last'.target \in DOMAIN provider
         /\ provider[last'.target] = "paid"
         /\ payments[last'.target].status = "pending")
            => /\ \A i \in DOMAIN jobs' :
                    jobs'[i].payment_id = last'.target => jobs'[i].removed
               /\ SelectSeq(jobs', LAMBDA j : j.payment_id # last'.target)
                    = SelectSeq(jobs, LAMBDA j : j.payment_id # last'.target)
      ]_vars

\* C33: whenever no check is in progress, every payment whose status is paid
\* is referenced by a subscription in the ledger.
C33_PaidHasSubscription ==
    (\A i \in DOMAIN jobs : jobs[i].pc # "awaiting")
        => \A payment_id \in DOMAIN payments :
                payments[payment_id].status = Completed
                    => \E i \in DOMAIN subs : subs[i].payment_id = payment_id

-----------------------------------------------------------------------------
\* The ledger file together with the operations of the bot that write the
\* ledger.  docs holds the gateway documents and, at DbPath, the ledger file;
\* every _save_data runs to its end.

\* Database._save_data: json.dump of self._data into the file at _db_path.
_save_data(d, us, ss, ps) ==
    [d EXCEPT ![DbPath] = [exists |-> TRUE, open |-> FALSE,
                           text |-> json_dump(Data(us, ss, ps))]]

StoreInit ==
    /\ now = 0
    /\ cfg \in Configs
    /\ users = {}
    /\ subs = <<>>
    /\ payments = <<>>
    /\ docs = [p \in Paths \cup {DbPath} |->
                IF p = DbPath
                THEN [exists |-> TRUE, open |-> FALSE,
                      text |-> json_dump(EmptyData)]
                ELSE NoFile]
    /\ jobs = <<>>
    /\ user_data = [u \in Users |-> None]
    /\ shown = {}
    /\ provider = <<>>
    /\ next_uuid = 1
    /\ last = [op |-> "none"]

\* start_command: database.add_user and its _save_data.
stored_start_command(user_id) ==
    /\ users' = users \cup {user_id}
    /\ docs' = _save_data(docs, users', subs, payments)
    /\ last' = [op |-> "start"]
    /\ UNCHANGED <<subs, payments, next_uuid>>
    /\ PersistFrame

\* process_payment up to its record_payment, with the _save_data of it.
stored_process_payment(user_id, plan, server_id) ==
    LET payment_id == <<"crypto", now, user_id>>
    IN  /\ Cardinality(DOMAIN payments) < MaxPayments
        /\ payments' = record_payment(payments, user_id, payment_id,
                                      plan.price, "USD", "pending",
                                      plan.days, server_id)
        /\ docs' = _save_data(docs, users, subs, payments')
        /\ last' = [op |-> "process_payment"]
        /\ UNCHANGED <<users, subs, next_uuid>>
        /\ PersistFrame

\* process_trial_activation from its add_subscription on: add_subscription
\* saves the ledger, then the handler marks the returned subscription as a
\* trial, provisions the identity and stores its id in the subscription.
stored_process_trial_activation(user_id, server_id, write_ok) ==
    LET subscription == add_subscription(user_id, TrialDays, None, server_id)
        xray_user == xray_manager_add_user(docs,
                          TrialEmail(user_id, subscription[1].id), server_id,
                          next_uuid + 2, TRUE, write_ok)
    IN  /\ subscription # None
        /\ Len(subs) < MaxSubs
        /\ docs' = _save_data(xray_user.docs, users,
                              Append(subs, subscription[1]), payments)
        /\ subs' = Append(subs,
                        [subscription[1] EXCEPT
                            !.is_trial = TRUE,
                            !.vless_id = IF xray_user.result.error
                                         THEN @ ELSE xray_user.result.id])
        /\ next_uuid' = next_uuid + 3
        /\ last' = [op |-> "trial"]
        /\ UNCHANGED <<users, payments>>
        /\ PersistFrame

\* The completion of a payment in check_payment_job and
\* check_payment_manually: update_payment_status saves, add_subscription
\* saves, then the handler provisions the identity and stores its id in the
\* subscription.
stored_complete_payment(payment_id, write_ok) ==
    LET payment == payments[payment_id]
        paid == update_payment_status(payments, payment_id, Completed)
        subscription == add_subscription(payment.user_id,
                            payment.subscription_days, payment_id,
                            payment.server_id)
        xray_user == xray_manager_add_user(docs,
                          PaidEmail(payment.user_id, subscription[1].id),
                          payment.server_id, next_uuid + 2, TRUE, write_ok)
    IN  /\ payment.status = "pending"
        /\ payments' = paid
        /\ IF subscription # None
           THEN /\ Len(subs) < MaxSubs
                /\ docs' = _save_data(xray_user.docs, users,
                                      Append(subs, subscription[1]), paid)
                /\ subs' = Append(subs,
                                [subscription[1] EXCEPT
                                    !.vless_id = IF xray_user.result.error
                                                 THEN @
                                                 ELSE xray_user.result.id])
                /\ next_uuid' = next_uuid + 3
           ELSE /\ docs' = _save_data(docs, users, subs, paid)
                /\ UNCHANGED <<subs, next_uuid>>
        /\ last' = [op |-> "complete_payment"]
        /\ UNCHANGED users
        /\ PersistFrame

StoreNext ==
    \/ \E user_id \in Users : stored_start_command(user_id)
    \/ \E user_id \in Users, plan \in Plans, i \in DOMAIN cfg :
            stored_process_payment(user_id, plan, cfg[i].id)
    \/ \E user_id \in Users, i \in DOMAIN cfg, write_ok \in BOOLEAN :
            stored_process_trial_activation(user_id, cfg[i].id, write_ok)
    \/ \E payment_id \in DOMAIN payments, write_ok \in BOOLEAN :
            stored_complete_payment(payment_id, write_ok)
    \/ restart

StoreSpec == StoreInit /\ [][StoreNext]_vars

\* C34: after every caller-facing operation completes (payment completion,
\* trial activation) the persisted ledger equals the in-memory ledger, so a
\* restart gives back each subscription with its provisioned credential id
\* and its trial marker.
C34_PersistedEqualsMemory ==
    [][ last'.op \in {"trial", "complete_payment"} =>
            _load_data(docs'[DbPath]) = Data(users', subs', payments') ]_vars

\* C35: the payment id that a manual check looks up is the id for which the
\* check button was created, so a manual check of a recorded payment never
\* reports the payment as not found.
C35_ManualCheckFindsPayment ==
    [][ (/\ last' # last
         /\ last'.op = "manual"
         /\ last'.target \in DOMAIN payments)
            => last'.result # "not_found" ]_vars

\* C36: every pending payment has a recurring reconciliation task, or a
\* confirmation path that can be taken, until it reaches a terminal status:
\* no request flow leaves a pending payment that nothing will ever check.
C36_PendingIsChecked ==
    \A payment_id \in DOMAIN payments :
        payments[payment_id].status = "pending"
            => \/ \E i \in DOMAIN jobs :
                    jobs[i].payment_id = payment_id /\ ~jobs[i].removed
               \/ CheckButton(payment_id) \in shown

\* C37: add_user(email) on a server preserves every client record with a
\* different email that the server's document held, in its inbound, for every
\* outcome of the load: it never replaces a populated document by a default
\* one.
C37_AddUserPreservesOthers ==
    [][ (last' # last /\ last'.op = "add_user") =>
            LET path == config_path(last'.mgr)
                others(clients) ==
                    SelectSeq(clients, LAMBDA c : c.email # last'.email)
            IN  /\ others(docs'[path].reality) = others(docs[path].reality)
                /\ others(docs'[path].ws) = others(docs[path].ws) ]_vars

\* C38: every payment request yields a payment id distinct from all ids in the
\* ledger, so the payment recorded under it carries the server of the request
\* just made: for the request that scheduled the newest task, the id was not
\* recorded before and the record under it names the task's server.
C38_FreshPaymentId ==
    [][ Len(jobs') > Len(jobs) =>
            LET job == jobs'[Len(jobs')]
            IN  /\ job.payment_id \notin DOMAIN payments
                /\ payments'[job.payment_id].server_id = job.server_id ]_vars

\* C39: a trial subscription is created only if, at the moment of creation,
\* the user has no active subscription and no earlier trial, on the direct
\* path and on the path through the server selection alike.
C39_TrialOnlyWhenEligible ==
    [][ \A u \in Users :
            TrialSubs(subs', u) # TrialSubs(subs, u) =>
                /\ Len(get_active_subscriptions(u, None)) = 0
                /\ TrialSubs(subs, u) = {} ]_vars

-----------------------------------------------------------------------------
\* The bot together with the two views of a subscription.  last keeps, as its
\* target, the email under which the view asked the gateway.  The gateway
\* holds no traffic for an email it has no client of, and for a client that
\* has not been used, so show_traffic_stats stores nothing.

\* show_subscription: with no active subscription, or with more than one (a
\* list of buttons is sent and the handler returns), no gateway call is made;
\* with one, the links of active_subs[0] are built by generate_vless_link for
\* the email f"user_{user_id}_{subscription['id']}".
show_subscription(u) ==
    LET active_subs == get_active_subscriptions(u, None)
    IN  /\ Len(active_subs) = 1
        /\ last' = [op |-> "show_subscription",
                    target |-> PaidEmail(u, active_subs[1].id),
                    answer |-> "none", result |-> "shown"]
        /\ UNCHANGED <<now, cfg, users, subs, payments, docs, jobs, user_data,
                       shown, provider, next_uuid>>

\* show_traffic_stats: the same choice of the subscription; the traffic is
\* asked of get_user_traffic for the email
\* f"user_{user_id}_{subscription['id']}".
show_traffic_stats(u) ==
    LET active_subs == get_active_subscriptions(u, None)
    IN  /\ Len(active_subs) = 1
        /\ last' = [op |-> "show_traffic_stats",
                    target |-> PaidEmail(u, active_subs[1].id),
                    answer |-> "none", result |-> "shown"]
        /\ UNCHANGED <<now, cfg, users, subs, payments, docs, jobs, user_data,
                       shown, provider, next_uuid>>

ViewNext ==
    \/ Next
    \/ \E u \in Users : show_subscription(u)
    \/ \E u \in Users : show_traffic_stats(u)

ViewSpec == Init /\ [][ViewNext]_vars

\* C40: for every subscription, paid or trial, the label under which its
\* identity was provisioned is the label later used to build its connection
\* descriptor and to query its traffic: the email a view uses is the email of
\* the gateway client of the subscription it shows.
C40_OneLabelPerSubscription ==
    [][ (/\ last' # last
         /\ last'.op \in {"show_subscription", "show_traffic_stats"})
            => \A i \in DOMAIN subs :
                    subs[i].id = last'.target[Len(last'.target)]
                        => last'.target = Label(subs[i]) ]_vars
====
